---- MODULE Spec2Model ----
(***************************************************************************)
(* kaijs: the file-queue spool, the listener's process_msg, the three      *)
(* loader loops (document DB, legacy document DB, bulk search index) and   *)
(* the optimistic-concurrency writer Artifacts.add.                        *)
(*                                                                         *)
(* Three specifications share the variables:                               *)
(*   SpecLoader    the spool and one loader process (src/loader.ts,        *)
(*                 unnamed/part_012, unnamed/part_013)                     *)
(*   SpecListener  process_msg of the AMQP listeners (unnamed/part_005)    *)
(*   SpecDB        writers running Artifacts.add against one collection    *)
(*                 (src/db.ts, src/msg_handlers_rpm_build.ts)              *)
(***************************************************************************)
EXTENDS Integers, Sequences, FiniteSets, TLC

\* ------------------------------------------------------------------ bounds
\* envelopes the listener pushes to the spool in one behaviour
MaxEnv == 2
\* envelopes of the longest stream given to the bulk loader alone
MaxBulkEnv == 51

NoEnv == 0

\* ------------------------------------------------------- program constants
\* part_013: const bulkSecondsThreshold = 3 (seconds)
bulkSecondsThreshold == 3
\* part_013: const bulkMaxEntries = 100
bulkMaxEntries == 100
\* part_013: const bulkMaxSize = 1024 * 1024 * 1024 * 50 (bytes); sizes are
\* counted in KiB here, so the threshold is 1024 * 1024 * 50 KiB
bulkMaxSize == 1024 * 1024 * 50

\* ------------------------------------------------------------- envelopes
\* What processing an envelope leads to; fixed by the envelope's content.
\*   ok            valid message with a handler
\*   badshape      fails Joi.assert(fq_msg, schemas['fq_msg'])
\*   invalid       Joi.ValidationError from assertMsgIsValid (strict schema)
\*   ajv           AJVValidationError from assertMsgIsValid (relaxed schema)
\*   wrongversion  WrongVersionError
\*   noschema      NoValidationSchemaError
\*   nohandler     NoAssociatedHandlerError
\*   noneed        NoNeedToProcessError
\*   nothreadid    NoThreadIdError from the handler's mkThreadId
\*   toolarge      ToLargeDocumentError (document DB only)
EnvClasses == {"ok", "badshape", "invalid", "ajv", "wrongversion", "noschema",
               "nohandler", "noneed", "nothreadid", "toolarge"}
\* In the streams given to the bulk loader alone there is also
\*   big           valid message with a handler and a body of 12.5 MiB

\* time between two envelopes as the bulk loader measures it, milliseconds
GapsMs == {100, 3500}

LoaderKinds == {"db", "legacy", "bulk"}

VARIABLES
    \* ---- spool (file-queue) and loader process
    kind,        \* which loader executable runs
    nextId,      \* envelopes pushed so far
    envClass,    \* EnvIds -> class of the pushed envelope ("none" before push)
    fq,          \* the spool: [active, claim, committed, commits, rollbacks]
    orphaned,    \* claimed envelopes left behind by a process that exited
    lpc,         \* loader position
    cur,         \* fq_msg of the current iteration
    curErr,      \* error caught in the current iteration, kept at exit
    fqEntries,   \* bulk loader: claimed entries of the pending batch
    bulkUpdates, \* bulk loader: pending updates
    bulkSizeBytes,
    secondsBetweenMessages, \* in milliseconds
    stores,      \* datastores: [artifacts, raw, invalid, nohandler, index]
    failedBatch, \* entries of the batch whose bulk request reported an error
    exitCode,    \* -1 while the process runs, else the exit code
    schemasState \* getAllSchemas of this process: idle, running, done, failed

loaderVars == <<kind, nextId, envClass, fq, orphaned, lpc, cur, curErr, fqEntries,
                bulkUpdates, bulkSizeBytes, secondsBetweenMessages, stores,
                failedBatch, exitCode, schemasState>>

VARIABLES
    \* ---- listener (process_msg)
    msgSeen,     \* broker messages delivered to process_msg so far
    msgForm,     \* BrokerMsgs -> form of the delivered message
    pushState,   \* BrokerMsgs -> state of the promise fq.push returned
    accepted,    \* BrokerMsgs -> delivery.accept() was called
    spool        \* broker messages whose envelope file was appended

listenerVars == <<msgSeen, msgForm, pushState, accepted, spool>>

VARIABLES
    \* ---- artifacts collection and the writers running Artifacts.add
    doc,         \* the artifact document of one (type, aid)
    now,         \* the clock read by new Date()
    msgBody,     \* MsgIds -> payload fields of the broker message
    feed,        \* Writers -> envelopes the writer's loader processes
    pos,         \* Writers -> envelopes whose add returned
    wpc,         \* Writers -> position inside add
    retries_left,
    artifact,    \* Writers -> document the handler returned
    update_set,  \* Writers -> paths of the $set
    filter,      \* Writers -> _version the update is conditional on
    updTime,     \* Writers -> update_set._updated
    iterations,  \* Writers -> loop bodies entered by the current add
    failedUpdates, \* Writers -> updates of the current add that modified nothing
    result,      \* Writers -> how the last add ended
    faultsLeft,  \* datastore failures still to be injected
    snap         \* the document when writer 1 finished the first half of its feed

dbVars == <<doc, now, msgBody, feed, pos, wpc, retries_left, artifact,
            update_set, filter, updTime, iterations, failedUpdates, result,
            faultsLeft, snap>>

VARIABLES
    \* ---- one pass of Artifacts.add over mk_update_set
    current,     \* db_entry: the stored document, re-read by findOrCreate
    computed,    \* artifact: the document the handler returned
    updateSetOut, \* what mk_update_set returned: path -> value
    applied,     \* the stored document after the pass
    issued,      \* findOneAndUpdate was called
    setFailed,   \* the server rejected the $set
    dpc          \* position of the pass

diffVars == <<current, computed, updateSetOut, applied, issued, setFailed, dpc>>

VARIABLES
    \* ---- search index fed by bulk requests
    envelopes,   \* the envelopes of the run: broker_msg_id -> what the handler reads
    indexDocs,   \* Replicas -> docId -> document of the index
    bulked       \* Replicas -> envelopes whose updates a bulk request applied

indexVars == <<envelopes, indexDocs, bulked>>

VARIABLES
    \* ---- the NEW directory of the spool as fqueue.ts reads it
    dirNew,      \* envelope files in the NEW directory, named by arrival
    appended,    \* files the listener appended so far
    handedOut,   \* files in the order tpop handed them to the loader
    sortsListing, \* the file-queue package sorts what listNew returns
    listed       \* how many names the last call of listNew read

dirVars == <<dirNew, appended, handedOut, sortsListing, listed>>

VARIABLES
    \* ---- one envelope through dispatch, validation and thread-id derivation
    allKnownHandlers, \* the registered [re, handler] pairs, in their order
    msgIn,       \* what the function at hand reads of the envelope
    msgOut       \* what it returned or threw; "pending" fields before the call

msgVars == <<allKnownHandlers, msgIn, msgOut>>

vars == <<loaderVars, listenerVars, dbVars, diffVars, indexVars, dirVars,
          msgVars>>

\* the ids of the envelopes of one behaviour
EnvIds == DOMAIN envClass

Range(s) == {s[i] : i \in DOMAIN s}

Min(S) == CHOOSE x \in S : \A y \in S : x <= y

\* the elements of a set of envelope ids, oldest first
RECURSIVE SortedSeq(_)
SortedSeq(S) == IF S = {} THEN <<>> ELSE <<Min(S)>> \o SortedSeq(S \ {Min(S)})

\* ------------------------------------------------------------------ spool
\* fqueue.ts tpop: "the element is taken from the queue, but will not be
\* removed until commit is called. The rollback action makes the item again
\* available for popping."
fqEmpty == [active |-> <<>>, claim |-> {}, committed |-> {},
            commits |-> [e \in EnvIds |-> 0],
            rollbacks |-> [e \in EnvIds |-> 0]]

\* fq.push resolved: the envelope file is in the active directory
push(q, e) == [q EXCEPT !.active = Append(@, e)]

\* fq.tpop resolved: the oldest envelope moves to the claim directory
tpop(q) == [q EXCEPT !.active = Tail(@),
                     !.claim = @ \cup {Head(q.active)},
                     !.commits[Head(q.active)] = 0,
                     !.rollbacks[Head(q.active)] = 0]

\* a commit callback that is never invoked
fq_commit_skip(q, e) == q

\* the commit callback of an entry: the envelope is removed
fq_commit(q, e) ==
    [q EXCEPT !.claim = @ \ {e},
              !.committed = @ \cup {e},
              !.commits[e] = @ + 1]

\* the rollback callback of an entry: the envelope is poppable again
fq_rollback(q, e) ==
    [q EXCEPT !.claim = @ \ {e},
              !.active = IF e \in q.claim THEN <<e>> \o @ ELSE @,
              !.rollbacks[e] = @ + 1]

RECURSIVE rollbackFqMessages(_, _)
\* a rollback that stops after the first entry
rollbackOnlyFirst(q, entries) ==
    IF entries = <<>> THEN q ELSE fq_rollback(q, Head(entries))

\* part_013 rollbackFqMessages: the rollback callback of every entry
rollbackFqMessages(q, entries) ==
    IF entries = <<>> THEN q
    ELSE rollbackFqMessages(fq_rollback(q, Head(entries)), Tail(entries))

\* part_013 commitFqMessages: the commit callback of every entry
RECURSIVE commitFqMessages(_, _)
commitFqMessages(q, entries) ==
    IF entries = <<>> THEN q
    ELSE commitFqMessages(fq_commit(q, Head(entries)), Tail(entries))

\* ------------------------------------------------------------- processing
InvalidMsgErrors == {"ValidationError", "WrongVersionError",
                     "NoValidationSchemaError", "NoAssociatedHandlerError",
                     "ToLargeDocumentError", "AJVValidationError"}

\* the error (or "none") that assertMsgIsValid / getHandler / the handler /
\* Artifacts.add raise for an envelope of class c
ErrorOf(c) ==
    CASE c = "invalid" -> "ValidationError"
      [] c = "ajv" -> "AJVValidationError"
      [] c = "wrongversion" -> "WrongVersionError"
      [] c = "noschema" -> "NoValidationSchemaError"
      [] c = "nohandler" -> "NoAssociatedHandlerError"
      [] c = "noneed" -> "NoNeedToProcessError"
      [] c = "nothreadid" -> "NoThreadIdError"
      [] c = "toolarge" -> "ToLargeDocumentError"
      [] OTHER -> "none"

\* outcomes of one awaited datastore call: it resolves, rejects with an
\* Error, or rejects with a value that is not an Error
IoOutcomes == {"none", "Error", "NonError"}

\* Artifacts.add_to_db(fq_msg): the envelope's own error, or for envelopes
\* that reach the database a failure of the database
add_to_db(c) ==
    IF c \in {"ok", "toolarge"} THEN {ErrorOf(c), "Error", "NonError"}
    ELSE {ErrorOf(c)}

\* part_012: the catch block around add_to_db
LegacyCatch(err) ==
    CASE err = "ValidationError" -> "store_invalid"
      [] err = "NoAssociatedHandlerError" -> "store_nohandler"
      [] err = "NonError" -> "throw"
      [] OTHER -> "rollback_exit"

\* a catch block that tells no error from another
catchEveryError(err) ==
    CASE err = "NonError" -> "throw"
      [] OTHER -> "rollback_exit"

\* loader.ts: the catch block around add_to_db
LoaderCatch(err) ==
    CASE err \in InvalidMsgErrors -> "store_invalid"
      [] err = "NoNeedToProcessError" -> "drop"
      [] err = "NonError" -> "throw"
      [] OTHER -> "rollback_exit"

\* loader.ts / part_012: the catch block around validation_errors.add_to_db
StoreInvalidCatch(err) ==
    CASE err = "none" -> "commit"
      [] err = "NonError" -> "throw"
      [] OTHER -> "rollback_exit"

\* part_012: the catch block around no_handlers.add_to_db; an Error is only
\* logged and control falls through to fq_commit
StoreNoHandlerCatch(err) ==
    CASE err = "NonError" -> "throw"
      [] OTHER -> "commit"

\* what a decision does to the spool entry of envelope e
Resolve(q, e, d) ==
    CASE d \in {"commit", "drop"} -> fq_commit(q, e)
      [] d = "rollback_exit" -> fq_rollback(q, e)
      [] OTHER -> q

Exits(d) == d \in {"rollback_exit", "throw"}

\* opensearch.ts getMsgUpdates: the updates of an envelope, or the error
\* it rethrows
Update(e, role) == [env |-> e, role |-> role, kib |-> 1]
\* an update whose doc carries a message body of 12.5 MiB
BigUpdate(e, role) == [env |-> e, role |-> role, kib |-> 12800]
getMsgUpdates(e, c) ==
    CASE ErrorOf(c) \in {"WrongVersionError", "AJVValidationError",
                         "ValidationError", "NoValidationSchemaError",
                         "NoAssociatedHandlerError"} ->
            {[err |-> "none", updates |-> <<Update(e, "invalid")>>]}
      [] c = "noneed" -> {[err |-> "none", updates |-> <<>>]}
      [] c = "nothreadid" -> {[err |-> ErrorOf(c), updates |-> <<>>]}
      [] c = "big" ->
            {[err |-> "none",
              updates |-> <<BigUpdate(e, "parent"), BigUpdate(e, "child")>>]}
      [] OTHER ->
            {[err |-> "none",
              updates |-> <<Update(e, "parent"), Update(e, "child")>>],
             [err |-> "Error", updates |-> <<>>],
             [err |-> "NonError", updates |-> <<>>]}

\* part_013 getObjectSize summed over the updates of one message
RECURSIVE updatesSizeBytes(_)
updatesSizeBytes(us) ==
    IF us = <<>> THEN 0 ELSE Head(us).kib + updatesSizeBytes(Tail(us))

\* part_013: the condition under which the loop continues without a flush
NoFlush(gapMs, updates, size) ==
    \/ /\ gapMs < bulkSecondsThreshold * 1000
       /\ Len(updates) < bulkMaxEntries
       /\ size < bulkMaxSize
    \/ Len(updates) = 0

\* ---------------------------------------------------------------- loaders
storesEmpty == [artifacts |-> {}, raw |-> {}, invalid |-> {},
                nohandler |-> {}, index |-> {}]

InitLoader ==
    /\ kind \in LoaderKinds
    /\ nextId = 0
    /\ envClass = [e \in 1..MaxEnv |-> "none"]
    /\ fq = fqEmpty
    /\ orphaned = {}
    /\ lpc = "start"
    /\ cur = NoEnv
    /\ curErr = "none"
    /\ fqEntries = <<>>
    /\ bulkUpdates = <<>>
    /\ bulkSizeBytes = 0
    /\ secondsBetweenMessages = 0
    /\ stores = storesEmpty
    /\ failedBatch = {}
    /\ exitCode = -1
    /\ schemasState = "idle"

Running == exitCode = -1

\* envelopes the running loader process claimed and has not resolved
held == fq.claim \ orphaned

\* process.exit: what is still in the claim directory is left behind
Orphans(q, exits) == IF exits THEN q.claim ELSE orphaned

\* the listener's fq.push resolves: a new envelope file in the spool
Push(c) ==
    /\ nextId < MaxEnv
    /\ nextId' = nextId + 1
    /\ envClass' = [envClass EXCEPT ![nextId + 1] = c]
    /\ fq' = push(fq, nextId + 1)
    /\ UNCHANGED <<kind, orphaned, lpc, cur, curErr, fqEntries, bulkUpdates,
                   bulkSizeBytes, secondsBetweenMessages, stores, failedBatch,
                   exitCode>>
    /\ UNCHANGED <<schemasState, listenerVars, dbVars, diffVars, indexVars, dirVars, msgVars>>

\* the envelope streams given to the bulk loader alone: MaxBulkEnv small
\* messages, or two messages of 25 MiB of updates each and a small one
BulkStreams ==
    {[e \in 1..MaxBulkEnv |-> "ok"],
     [e \in 1..MaxBulkEnv |-> CASE e <= 2 -> "big" [] e = 3 -> "ok" [] OTHER -> "none"]}

\* the listener's fq.push resolves for the next envelope of the stream
PushNext ==
    /\ nextId < MaxBulkEnv
    /\ envClass[nextId + 1] # "none"
    /\ nextId' = nextId + 1
    /\ fq' = push(fq, nextId + 1)
    /\ UNCHANGED <<kind, envClass, orphaned, lpc, cur, curErr, fqEntries,
                   bulkUpdates, bulkSizeBytes, secondsBetweenMessages, stores,
                   failedBatch, exitCode>>
    /\ UNCHANGED <<schemasState, listenerVars, dbVars, diffVars, indexVars, dirVars, msgVars>>

\* a start() that schedules getAllSchemas and goes on to the loop
StartWithoutAwait ==
    /\ Running /\ lpc = "start"
    /\ lpc' = "tpop"
    /\ schemasState' = IF kind = "legacy" THEN schemasState ELSE "running"
    /\ UNCHANGED <<kind, nextId, envClass, fq, orphaned, cur, curErr,
                   fqEntries, bulkUpdates, bulkSizeBytes,
                   secondsBetweenMessages, stores, failedBatch, exitCode>>
    /\ UNCHANGED <<listenerVars, dbVars, diffVars, indexVars, dirVars, msgVars>>

\* start() up to the loop: the datastore connection, the signal handlers and,
\* in loader.ts and part_013, the call of getAllSchemas that start() awaits.
\* part_012 has no schema catalog and goes to its loop
Start ==
    /\ Running /\ lpc = "start"
    /\ \E connected \in BOOLEAN :
        /\ exitCode' = IF connected THEN -1 ELSE 1
        /\ lpc' = CASE ~connected -> "exited"
                    [] kind = "legacy" -> "tpop"
                    [] OTHER -> "getAllSchemas"
        /\ schemasState' = IF connected /\ kind # "legacy" THEN "running"
                           ELSE schemasState
        /\ orphaned' = Orphans(fq, ~connected)
    /\ UNCHANGED <<kind, nextId, envClass, fq, cur, curErr, fqEntries,
                   bulkUpdates, bulkSizeBytes, secondsBetweenMessages, stores,
                   failedBatch>>
    /\ UNCHANGED <<listenerVars, dbVars, diffVars, indexVars, dirVars, msgVars>>

\* get_schema.ts getAllSchemas settles: it resolves and the start() awaiting
\* it goes on, or the clone fails (process.exit(1)) or a git command throws
\* (start().catch, process.exit(1))
GetAllSchemas ==
    /\ Running /\ schemasState = "running"
    /\ \E resolved \in BOOLEAN :
        /\ schemasState' = IF resolved THEN "done" ELSE "failed"
        /\ exitCode' = IF resolved THEN -1 ELSE 1
        /\ lpc' = CASE ~resolved -> "exited"
                    [] lpc = "getAllSchemas" -> "tpop"
                    [] OTHER -> lpc
        /\ orphaned' = Orphans(fq, ~resolved)
    /\ UNCHANGED <<kind, nextId, envClass, fq, cur, curErr, fqEntries,
                   bulkUpdates, bulkSizeBytes, secondsBetweenMessages, stores,
                   failedBatch>>
    /\ UNCHANGED <<listenerVars, dbVars, diffVars, indexVars, dirVars, msgVars>>

\* loader.ts / part_012: await fq.tpop, then the envelope-shape check; an
\* envelope that fails it is committed at once and the loop continues
Tpop ==
    /\ Running /\ kind \in {"db", "legacy"} /\ lpc = "tpop"
    /\ fq.active # <<>>
    /\ LET e == Head(fq.active)
           parse_err == envClass[e] = "badshape"
       IN  /\ fq' = IF parse_err THEN fq_commit(tpop(fq), e) ELSE tpop(fq)
           /\ cur' = IF parse_err THEN NoEnv ELSE e
           /\ lpc' = IF parse_err THEN "tpop" ELSE "add"
    /\ UNCHANGED <<kind, nextId, envClass, orphaned, curErr, fqEntries,
                   bulkUpdates, bulkSizeBytes, secondsBetweenMessages, stores,
                   failedBatch, exitCode>>
    /\ UNCHANGED <<schemasState, listenerVars, dbVars, diffVars, indexVars, dirVars, msgVars>>

\* every loader: fq.tpop rejects, process.exit(1)
TpopFail ==
    /\ Running /\ lpc = "tpop"
    /\ exitCode' = 1
    /\ lpc' = "exited"
    /\ orphaned' = fq.claim
    /\ fqEntries' = <<>>
    /\ bulkUpdates' = <<>>
    /\ bulkSizeBytes' = 0
    /\ UNCHANGED <<kind, nextId, envClass, fq, cur, curErr,
                   secondsBetweenMessages, stores, failedBatch>>
    /\ UNCHANGED <<schemasState, listenerVars, dbVars, diffVars, indexVars, dirVars, msgVars>>

\* loader.ts: await artifacts.add_to_db(fq_msg) and its catch block
AddArtifacts ==
    /\ Running /\ kind = "db" /\ lpc = "add"
    /\ \E err \in add_to_db(envClass[cur]) :
        LET d == IF err = "none" THEN "next" ELSE LoaderCatch(err) IN
        /\ stores' = IF err = "none"
                     THEN [stores EXCEPT !.artifacts = @ \cup {cur}]
                     ELSE stores
        /\ fq' = Resolve(fq, cur, d)
        /\ orphaned' = Orphans(fq', Exits(d))
        /\ lpc' = CASE d = "next" -> "raw"
                    [] d = "store_invalid" -> "invalid"
                    [] Exits(d) -> "exited"
                    [] OTHER -> "tpop"
        /\ cur' = IF d \in {"next", "store_invalid"} THEN cur ELSE NoEnv
        /\ curErr' = IF d \in {"next", "drop"} THEN "none" ELSE err
        /\ exitCode' = IF Exits(d) THEN 1 ELSE -1
    /\ UNCHANGED <<kind, nextId, envClass, fqEntries, bulkUpdates,
                   bulkSizeBytes, secondsBetweenMessages, failedBatch>>
    /\ UNCHANGED <<schemasState, listenerVars, dbVars, diffVars, indexVars, dirVars, msgVars>>

\* loader.ts: await raw_messages.add_to_db(fq_msg), then fq_commit
AddRaw ==
    /\ Running /\ kind = "db" /\ lpc = "raw"
    /\ \E err \in IoOutcomes :
        LET d == IF err = "none" THEN "commit" ELSE LoaderCatch(err) IN
        /\ stores' = IF err = "none"
                     THEN [stores EXCEPT !.raw = @ \cup {cur}]
                     ELSE stores
        /\ fq' = Resolve(fq, cur, d)
        /\ orphaned' = Orphans(fq', Exits(d))
        /\ lpc' = IF Exits(d) THEN "exited" ELSE "tpop"
        /\ exitCode' = IF Exits(d) THEN 1 ELSE -1
        /\ curErr' = IF Exits(d) THEN err ELSE "none"
    /\ cur' = NoEnv
    /\ UNCHANGED <<kind, nextId, envClass, fqEntries, bulkUpdates,
                   bulkSizeBytes, secondsBetweenMessages, failedBatch>>
    /\ UNCHANGED <<schemasState, listenerVars, dbVars, diffVars, indexVars, dirVars, msgVars>>

\* part_012: await artifacts.add_to_db(fq_msg) and its catch block
AddArtifactsLegacy ==
    /\ Running /\ kind = "legacy" /\ lpc = "add"
    /\ \E err \in add_to_db(envClass[cur]) :
        LET d == IF err = "none" THEN "commit" ELSE LegacyCatch(err) IN
        /\ stores' = IF err = "none"
                     THEN [stores EXCEPT !.artifacts = @ \cup {cur}]
                     ELSE stores
        /\ fq' = Resolve(fq, cur, d)
        /\ orphaned' = Orphans(fq', Exits(d))
        /\ lpc' = CASE d = "store_invalid" -> "invalid"
                    [] d = "store_nohandler" -> "nohandler"
                    [] Exits(d) -> "exited"
                    [] OTHER -> "tpop"
        /\ cur' = IF d \in {"store_invalid", "store_nohandler"}
                  THEN cur ELSE NoEnv
        /\ curErr' = IF d = "commit" THEN "none" ELSE err
        /\ exitCode' = IF Exits(d) THEN 1 ELSE -1
    /\ UNCHANGED <<kind, nextId, envClass, fqEntries, bulkUpdates,
                   bulkSizeBytes, secondsBetweenMessages, failedBatch>>
    /\ UNCHANGED <<schemasState, listenerVars, dbVars, diffVars, indexVars, dirVars, msgVars>>

\* loader.ts / part_012: await validation_errors.add_to_db(fq_msg, err)
StoreInvalid ==
    /\ Running /\ kind \in {"db", "legacy"} /\ lpc = "invalid"
    /\ \E err \in IoOutcomes :
        LET d == StoreInvalidCatch(err) IN
        /\ stores' = IF err = "none"
                     THEN [stores EXCEPT !.invalid = @ \cup {cur}]
                     ELSE stores
        /\ fq' = Resolve(fq, cur, d)
        /\ orphaned' = Orphans(fq', Exits(d))
        /\ lpc' = IF Exits(d) THEN "exited" ELSE "tpop"
        /\ exitCode' = IF Exits(d) THEN 1 ELSE -1
        /\ curErr' = IF Exits(d) THEN err ELSE "none"
    /\ cur' = NoEnv
    /\ UNCHANGED <<kind, nextId, envClass, fqEntries, bulkUpdates,
                   bulkSizeBytes, secondsBetweenMessages, failedBatch>>
    /\ UNCHANGED <<schemasState, listenerVars, dbVars, diffVars, indexVars, dirVars, msgVars>>

\* part_012: await no_handlers.add_to_db(fq_msg, err)
StoreNoHandler ==
    /\ Running /\ kind = "legacy" /\ lpc = "nohandler"
    /\ \E err \in IoOutcomes :
        LET d == StoreNoHandlerCatch(err) IN
        /\ stores' = IF err = "none"
                     THEN [stores EXCEPT !.nohandler = @ \cup {cur}]
                     ELSE stores
        /\ fq' = Resolve(fq, cur, d)
        /\ orphaned' = Orphans(fq', Exits(d))
        /\ lpc' = IF Exits(d) THEN "exited" ELSE "tpop"
        /\ exitCode' = IF Exits(d) THEN 1 ELSE -1
        /\ curErr' = IF Exits(d) THEN err ELSE "none"
    /\ cur' = NoEnv
    /\ UNCHANGED <<kind, nextId, envClass, fqEntries, bulkUpdates,
                   bulkSizeBytes, secondsBetweenMessages, failedBatch>>
    /\ UNCHANGED <<schemasState, listenerVars, dbVars, diffVars, indexVars, dirVars, msgVars>>

\* part_013: await fq.tpop, the envelope-shape check, fqEntries.push and
\* the time since the previous envelope
TpopBulk ==
    /\ Running /\ kind = "bulk" /\ lpc = "tpop"
    /\ fq.active # <<>>
    /\ LET e == Head(fq.active)
           parse_err == envClass[e] = "badshape"
       IN  /\ fq' = IF parse_err THEN fq_commit(tpop(fq), e) ELSE tpop(fq)
           /\ cur' = IF parse_err THEN NoEnv ELSE e
           /\ lpc' = IF parse_err THEN "tpop" ELSE "updates"
           /\ fqEntries' = IF parse_err THEN fqEntries
                           ELSE Append(fqEntries, e)
           /\ \E gap \in GapsMs :
                secondsBetweenMessages' =
                    IF parse_err THEN secondsBetweenMessages ELSE gap
    /\ UNCHANGED <<kind, nextId, envClass, orphaned, curErr, bulkUpdates,
                   bulkSizeBytes, stores, failedBatch, exitCode>>
    /\ UNCHANGED <<schemasState, listenerVars, dbVars, diffVars, indexVars, dirVars, msgVars>>

\* part_013 rollbackAndExit(err, fqEntries): an Error rolls every entry of
\* the batch back before process.exit(1); any other value is rethrown
rollbackAndExit(q, err, entries) ==
    IF err # "NonError" THEN rollbackFqMessages(q, entries) ELSE q

\* part_013: await getMsgUpdates(fq_msg), the size accounting and the
\* flush condition
GetMsgUpdates ==
    /\ Running /\ kind = "bulk" /\ lpc = "updates"
    /\ \E r \in getMsgUpdates(cur, envClass[cur]) :
        LET bytes == bulkSizeBytes + updatesSizeBytes(r.updates)
            updates == bulkUpdates \o r.updates
            failed == r.err # "none"
        IN  /\ fq' = IF failed THEN rollbackAndExit(fq, r.err, fqEntries)
                     ELSE fq
            /\ exitCode' = IF failed THEN 1 ELSE -1
            /\ curErr' = r.err
            /\ orphaned' = Orphans(fq', failed)
            /\ fqEntries' = IF failed THEN <<>> ELSE fqEntries
            /\ bulkUpdates' = IF failed THEN <<>> ELSE updates
            /\ bulkSizeBytes' = IF failed THEN 0 ELSE bytes
            /\ lpc' = CASE failed -> "exited"
                        [] NoFlush(secondsBetweenMessages, updates, bytes)
                             -> "tpop"
                        [] OTHER -> "bulk"
    /\ cur' = NoEnv
    /\ UNCHANGED <<kind, nextId, envClass, secondsBetweenMessages,
                   stores, failedBatch>>
    /\ UNCHANGED <<schemasState, listenerVars, dbVars, diffVars, indexVars, dirVars, msgVars>>

\* opensearch.ts bulkUpdate: the request resolves without errors, reports
\* errors (response.errors !== false -> Error), or is rejected
BulkOutcomes == {"none", "Error", "NonError"}

\* a flush that commits the batch whatever the bulk request answered
BulkUpdateCommitsAnyway ==
    /\ Running /\ kind = "bulk" /\ lpc = "bulk"
    /\ \E err \in BulkOutcomes :
        LET failed == err # "none" IN
        /\ stores' = IF failed THEN stores
                     ELSE [stores EXCEPT !.index = @ \cup Range(bulkUpdates)]
        /\ fq' = commitFqMessages(fq, fqEntries)
        /\ failedBatch' = IF err = "Error" THEN Range(fqEntries)
                          ELSE failedBatch
        /\ exitCode' = IF failed THEN 1 ELSE -1
        /\ lpc' = IF failed THEN "exited" ELSE "tpop"
        /\ orphaned' = Orphans(fq', failed)
        /\ curErr' = err
    /\ fqEntries' = <<>>
    /\ bulkUpdates' = <<>>
    /\ bulkSizeBytes' = 0
    /\ UNCHANGED <<kind, nextId, envClass, cur, secondsBetweenMessages>>
    /\ UNCHANGED <<schemasState, listenerVars, dbVars, diffVars, indexVars, dirVars, msgVars>>

\* part_013: await opensearchClient.bulkUpdate(bulkUpdates); on success the
\* batch is committed, else rollbackAndExit
BulkUpdate ==
    /\ Running /\ kind = "bulk" /\ lpc = "bulk"
    /\ \E err \in BulkOutcomes :
        LET failed == err # "none" IN
        /\ stores' = IF failed THEN stores
                     ELSE [stores EXCEPT !.index = @ \cup Range(bulkUpdates)]
        /\ fq' = IF failed THEN rollbackAndExit(fq, err, fqEntries)
                 ELSE commitFqMessages(fq, fqEntries)
        /\ failedBatch' = IF err = "Error" THEN Range(fqEntries)
                          ELSE failedBatch
        /\ exitCode' = IF failed THEN 1 ELSE -1
        /\ lpc' = IF failed THEN "exited" ELSE "tpop"
        /\ orphaned' = Orphans(fq', failed)
        /\ curErr' = err
    /\ fqEntries' = <<>>
    /\ bulkUpdates' = <<>>
    /\ bulkSizeBytes' = 0
    /\ UNCHANGED <<kind, nextId, envClass, cur, secondsBetweenMessages>>
    /\ UNCHANGED <<schemasState, listenerVars, dbVars, diffVars, indexVars, dirVars, msgVars>>

\* a shutdown that commits what the process holds before it exits
SignalCommitsHeld ==
    /\ Running
    /\ held # {}
    /\ exitCode' = 0
    /\ lpc' = "exited"
    /\ fq' = commitFqMessages(fq, SortedSeq(held))
    /\ orphaned' = fq'.claim
    /\ cur' = NoEnv
    /\ curErr' = "none"
    /\ fqEntries' = <<>>
    /\ bulkUpdates' = <<>>
    /\ bulkSizeBytes' = 0
    /\ UNCHANGED <<kind, nextId, envClass, secondsBetweenMessages, stores,
                   failedBatch>>
    /\ UNCHANGED <<schemasState, listenerVars, dbVars, diffVars, indexVars, dirVars, msgVars>>

\* handle_signal: SIGINT, SIGTERM or SIGABRT ends the process with exit(0)
Signal ==
    /\ Running
    /\ exitCode' = 0
    /\ lpc' = "exited"
    /\ orphaned' = fq.claim
    /\ cur' = NoEnv
    /\ curErr' = "none"
    /\ fqEntries' = <<>>
    /\ bulkUpdates' = <<>>
    /\ bulkSizeBytes' = 0
    /\ UNCHANGED <<kind, nextId, envClass, fq, secondsBetweenMessages, stores,
                   failedBatch>>
    /\ UNCHANGED <<schemasState, listenerVars, dbVars, diffVars, indexVars, dirVars, msgVars>>

\* the orchestrator starts the loader again: fq.make of a new process. What
\* the file-queue package does on start with files left in its claim
\* directory is not in the repository: they are either made active again
\* or left where they are
Restart ==
    /\ ~Running
    /\ exitCode' = -1
    /\ lpc' = "start"
    /\ schemasState' = "idle"
    /\ failedBatch' = {}
    /\ secondsBetweenMessages' = 0
    /\ \E recover \in BOOLEAN :
        /\ fq' = IF recover
                 THEN [fq EXCEPT !.active = SortedSeq(fq.claim) \o @,
                                 !.claim = {}]
                 ELSE fq
        /\ orphaned' = IF recover THEN {} ELSE orphaned
    /\ curErr' = "none"
    /\ UNCHANGED <<kind, nextId, envClass, cur, fqEntries,
                   bulkUpdates, bulkSizeBytes, stores>>
    /\ UNCHANGED <<listenerVars, dbVars, diffVars, indexVars, dirVars, msgVars>>

\* the bulk loader alone, running until it exits
NextBulk ==
    \/ PushNext
    \/ TpopBulk
    \/ GetMsgUpdates
    \/ BulkUpdate

NextLoader ==
    \/ \E c \in EnvClasses : Push(c)
    \/ Tpop
    \/ TpopFail
    \/ AddArtifacts
    \/ AddRaw
    \/ AddArtifactsLegacy
    \/ StoreInvalid
    \/ StoreNoHandler
    \/ TpopBulk
    \/ GetMsgUpdates
    \/ BulkUpdate
    \/ Signal
    \/ Restart
    \/ Start
    \/ GetAllSchemas

\* --------------------------------------------------------------- listener
\* broker messages delivered to the listener in one behaviour
MaxMsg == 3

BrokerMsgs == 1..MaxMsg

\* incomplete  empty context, no message, or no topic / message id
\* notjson     the body does not parse as JSON
\* json        the body parses
MsgForms == {"incomplete", "notjson", "json"}

IdleListener ==
    /\ msgSeen = 0
    /\ msgForm = [m \in BrokerMsgs |-> "none"]
    /\ pushState = [m \in BrokerMsgs |-> "none"]
    /\ accepted = [m \in BrokerMsgs |-> FALSE]
    /\ spool = <<>>

InitListener == IdleListener

\* a handler that hands every complete message to fq.push, parsed or not
process_msg_push_unparsed(form) ==
    /\ msgSeen < MaxMsg
    /\ LET m == msgSeen + 1 IN
        /\ msgSeen' = m
        /\ msgForm' = [msgForm EXCEPT ![m] = form]
        /\ pushState' = [pushState EXCEPT
                            ![m] = IF form # "incomplete" THEN "pending"
                                   ELSE "none"]
        /\ accepted' = [accepted EXCEPT ![m] = form # "incomplete"]
    /\ UNCHANGED spool
    /\ UNCHANGED <<loaderVars, dbVars, diffVars, indexVars, dirVars, msgVars>>

\* part_005 process_msg, the whole synchronous handler: an incomplete event
\* returns at once; a body that is not JSON is accepted and skipped;
\* otherwise fq.push(...) is called, its promise is left to settle later,
\* and delivery.accept() is called
process_msg(form) ==
    /\ msgSeen < MaxMsg
    /\ LET m == msgSeen + 1 IN
        /\ msgSeen' = m
        /\ msgForm' = [msgForm EXCEPT ![m] = form]
        /\ pushState' = [pushState EXCEPT
                            ![m] = IF form = "json" THEN "pending" ELSE "none"]
        /\ accepted' = [accepted EXCEPT ![m] = form # "incomplete"]
    /\ UNCHANGED spool
    /\ UNCHANGED <<loaderVars, dbVars, diffVars, indexVars, dirVars, msgVars>>

\* fqueue.ts push: the callback of fqueue.push runs, the promise resolves
\* (the envelope file is in the spool) or rejects with the error
PushOutcomes == {"none", "Error"}

pushSettles(m) ==
    /\ pushState[m] = "pending"
    /\ \E err \in PushOutcomes :
        /\ pushState' = [pushState EXCEPT
                            ![m] = IF err = "none" THEN "resolved"
                                   ELSE "rejected"]
        /\ spool' = IF err = "none" THEN Append(spool, m) ELSE spool
    /\ UNCHANGED <<msgSeen, msgForm, accepted>>
    /\ UNCHANGED <<loaderVars, dbVars, diffVars, indexVars, dirVars, msgVars>>

NextListener ==
    \/ \E form \in MsgForms : process_msg(form)
    \/ \E m \in BrokerMsgs : pushSettles(m)

\* ------------------------------------------------- artifacts collection
\* ticks of the clock in one behaviour
MaxClock == 1
\* datastore failures injected while two writers run
MaxFaults == 1

\* db.ts add: let retries_left = 30
retries == 30
\* msg_handlers_rpm_build.ts setExpire: var keep_days = 60
keep_days == 60

Writers == {1, 2}
MsgIds == {1, 2}

\* mkPayloadV1: the payload fields a message body carries ("none" is a
\* field the body does not have)
Bodies(m) ==
    IF m = 1 THEN {[source |-> "git-a", scratch |-> "none"],
                   [source |-> "none", scratch |-> "true"]}
    ELSE {[source |-> "git-b", scratch |-> "false"],
          [source |-> "", scratch |-> "none"]}

\* the envelope sequences a loader is given: S, and S followed by a replay
\* of S
Sequences1 == {<<1>>, <<1, 2>>}
Feeds == {<<S \o S, <<>>>> : S \in Sequences1} \cup
         {<<S, T>> : S \in Sequences1, T \in {<<>>, <<1>>, <<2>>}}

\* no document for (type, aid); also the value of every absent field
NoDoc == [exists |-> FALSE, version |-> 0, updated |-> 0, states |-> <<>>,
          source |-> "none", scratch |-> "none", expire_at |-> 0]

\* db.ts findOrCreate: findOneAndUpdate with upsert and
\* $setOnInsert {type, aid, _version: 1, _updated}
findOrCreate(d, t) ==
    IF d.exists THEN d
    ELSE [NoDoc EXCEPT !.exists = TRUE, !.version = 1, !.updated = t]

\* msg_handlers.ts customMerge under _.mergeWith, for one payload field: an
\* undefined source value is skipped, an empty string does not replace a
\* string that is present, any other value is assigned
customMerge(presentVaule, newValue) ==
    CASE newValue = "none" -> presentVaule
      [] newValue = "" /\ presentVaule # "none" -> presentVaule
      [] OTHER -> newValue

\* a push without the look-up of msg_id
pushStateAlways(states, broker_msg_id) == Append(states, broker_msg_id)

\* handlerCommon: the state of the message is pushed unless a state with
\* its msg_id is present
pushNewState(states, broker_msg_id) ==
    IF broker_msg_id \in Range(states) THEN states
    ELSE Append(states, broker_msg_id)

\* msg_handlers_rpm_build.ts setExpire
setExpire(dbArtifact, t) ==
    IF dbArtifact.scratch = "true"
    THEN [dbArtifact EXCEPT !.expire_at = t + keep_days]
    ELSE dbArtifact

\* msg_handlers_rpm_build.ts handlerCommon, after its findOrCreate returned
\* db_artifact
handlerCommon(db_artifact, broker_msg_id, body, t) ==
    setExpire([db_artifact EXCEPT
                 !.states = pushNewState(@, broker_msg_id),
                 !.source = customMerge(@, body.source),
                 !.scratch = customMerge(@, body.scratch)], t)

\* paths_mongodb_pack_array of an artifact document; type, aid and _id are
\* equal in every document of one (type, aid) and left out
Paths == {"version", "updated", "states", "source", "scratch", "expire_at"}

\* drop_empty_paths: the path resolves to a value
Present(d, p) ==
    CASE p = "states" -> d.states # <<>>
      [] p = "source" -> d.source # "none"
      [] p = "scratch" -> d.scratch # "none"
      [] p = "expire_at" -> d.expire_at # 0
      [] OTHER -> TRUE

\* db.ts mk_update_set: the paths of newdata that are absent in present or
\* resolve to a different value
mk_update_set(present, newdata) ==
    {p \in Paths : /\ Present(newdata, p)
                   /\ ~(Present(present, p) /\ newdata[p] = present[p])}

\* a filter of _id alone
filterIdOnly(d, version) == d.exists

\* db.ts add: const filter = _.pick(db_entry, '_id', '_version')
filterMatches(d, version) == d.exists /\ d.version = version

\* an updateDoc without $inc
updateDocNoInc(d, us, newdata, t) ==
    [exists |-> TRUE,
     version |-> d.version,
     updated |-> t,
     states |-> IF "states" \in us THEN newdata.states ELSE d.states,
     source |-> IF "source" \in us THEN newdata.source ELSE d.source,
     scratch |-> IF "scratch" \in us THEN newdata.scratch ELSE d.scratch,
     expire_at |-> IF "expire_at" \in us THEN newdata.expire_at
                   ELSE d.expire_at]

\* db.ts add: updateDoc = {$inc: {_version: 1}, $set: update_set} applied
\* to the stored document
updateDoc(d, us, newdata, t) ==
    [exists |-> TRUE,
     version |-> d.version + 1,
     updated |-> t,
     states |-> IF "states" \in us THEN newdata.states ELSE d.states,
     source |-> IF "source" \in us THEN newdata.source ELSE d.source,
     scratch |-> IF "scratch" \in us THEN newdata.scratch ELSE d.scratch,
     expire_at |-> IF "expire_at" \in us THEN newdata.expire_at
                   ELSE d.expire_at]

IdleDB ==
    /\ doc = NoDoc
    /\ now = 0
    /\ msgBody = [m \in MsgIds |-> [source |-> "none", scratch |-> "none"]]
    /\ feed = [w \in Writers |-> <<>>]
    /\ pos = [w \in Writers |-> 0]
    /\ wpc = [w \in Writers |-> "idle"]
    /\ retries_left = [w \in Writers |-> 0]
    /\ artifact = [w \in Writers |-> NoDoc]
    /\ update_set = [w \in Writers |-> {}]
    /\ filter = [w \in Writers |-> 0]
    /\ updTime = [w \in Writers |-> 0]
    /\ iterations = [w \in Writers |-> 0]
    /\ failedUpdates = [w \in Writers |-> 0]
    /\ result = [w \in Writers |-> "none"]
    /\ faultsLeft = 0
    /\ snap = NoDoc

\* Either two loaders with short feeds and few datastore failures, or one
\* loader with one envelope and a datastore that can fail on every call
InitDB ==
    /\ doc = NoDoc
    /\ now = 0
    /\ pos = [w \in Writers |-> 0]
    /\ wpc = [w \in Writers |-> "idle"]
    /\ retries_left = [w \in Writers |-> 0]
    /\ artifact = [w \in Writers |-> NoDoc]
    /\ update_set = [w \in Writers |-> {}]
    /\ filter = [w \in Writers |-> 0]
    /\ updTime = [w \in Writers |-> 0]
    /\ iterations = [w \in Writers |-> 0]
    /\ failedUpdates = [w \in Writers |-> 0]
    /\ result = [w \in Writers |-> "none"]
    /\ snap = NoDoc
    /\ \/ /\ msgBody \in {b \in [MsgIds -> UNION {Bodies(m) : m \in MsgIds}] :
                            \A m \in MsgIds : b[m] \in Bodies(m)}
          /\ \E f \in Feeds : feed = [w \in Writers |-> f[w]]
          /\ faultsLeft = MaxFaults
       \/ /\ msgBody = [m \in MsgIds |-> [source |-> "git-a",
                                          scratch |-> "none"]]
          /\ feed = [w \in Writers |-> IF w = 1 THEN <<1>> ELSE <<>>]
          /\ faultsLeft = retries + 1

\* outcomes of one awaited call to the collection
FaultChoices == IF faultsLeft > 0 THEN {"none", "Error"} ELSE {"none"}

\* add returns; d is the stored document at that moment
Returns(w, d) ==
    /\ pos' = [pos EXCEPT ![w] = @ + 1]
    /\ wpc' = [wpc EXCEPT ![w] = "idle"]
    /\ result' = [result EXCEPT ![w] = "ok"]
    /\ snap' = IF w = 1 /\ 2 * (pos[w] + 1) = Len(feed[w]) THEN d ELSE snap

\* add throws err; the loader that called it ends
Throws(w, err) ==
    /\ wpc' = [wpc EXCEPT ![w] = "stopped"]
    /\ result' = [result EXCEPT ![w] = err]
    /\ UNCHANGED <<pos, snap>>

Goes(w, pc) ==
    /\ wpc' = [wpc EXCEPT ![w] = pc]
    /\ UNCHANGED <<pos, result, snap>>

\* db.ts add: the call (retries_left = 30) or the next turn of the loop:
\* the while condition, retries_left -= 1, await handler(this, message)
\* with the handler's findOrCreate
addHandler(w) ==
    /\ wpc[w] \in {"idle", "while"}
    /\ wpc[w] = "idle" => pos[w] < Len(feed[w])
    /\ LET first == wpc[w] = "idle"
           r == IF first THEN retries ELSE retries_left[w]
           broker_msg_id == feed[w][pos[w] + 1]
       IN  IF r > 1 /\ r - 1 # 0
           THEN /\ retries_left' = [retries_left EXCEPT ![w] = r - 1]
                /\ iterations' = [iterations EXCEPT
                                    ![w] = IF first THEN 1 ELSE @ + 1]
                /\ failedUpdates' = [failedUpdates EXCEPT
                                    ![w] = IF first THEN 0 ELSE @]
                /\ \E err \in FaultChoices :
                     IF err = "none"
                     THEN /\ doc' = findOrCreate(doc, now)
                          /\ artifact' = [artifact EXCEPT ![w] =
                                handlerCommon(doc', broker_msg_id,
                                              msgBody[broker_msg_id], now)]
                          /\ Goes(w, "findOrCreate")
                          /\ UNCHANGED faultsLeft
                     ELSE /\ Throws(w, err)
                          /\ faultsLeft' = faultsLeft - 1
                          /\ UNCHANGED <<doc, artifact>>
           ELSE /\ Throws(w, "AllAttemptsFailed")
                /\ UNCHANGED <<retries_left, iterations, failedUpdates, doc,
                               artifact, faultsLeft>>
    /\ UNCHANGED <<now, msgBody, feed, update_set, filter, updTime>>
    /\ UNCHANGED <<loaderVars, listenerVars, diffVars, indexVars, dirVars, msgVars>>

\* db.ts add: db_entry = await this.findOrCreate(type, aid), on a throw
\* continue; then mk_update_set, the return on an empty update set, filter
\* and update_set._updated
addFindOrCreate(w) ==
    /\ wpc[w] = "findOrCreate"
    /\ \E err \in FaultChoices :
        IF err = "none"
        THEN LET db_entry == findOrCreate(doc, now)
                 us == mk_update_set(db_entry, artifact[w])
             IN  /\ doc' = db_entry
                 /\ IF us = {}
                    THEN /\ Returns(w, db_entry)
                         /\ UNCHANGED <<update_set, filter, updTime>>
                    ELSE /\ Goes(w, "update")
                         /\ update_set' = [update_set EXCEPT ![w] = us]
                         /\ filter' = [filter EXCEPT ![w] = db_entry.version]
                         /\ updTime' = [updTime EXCEPT ![w] = now]
                 /\ UNCHANGED faultsLeft
        ELSE /\ Goes(w, "while")
             /\ faultsLeft' = faultsLeft - 1
             /\ UNCHANGED <<doc, update_set, filter, updTime>>
    /\ UNCHANGED <<now, msgBody, feed, retries_left, artifact, iterations,
                   failedUpdates>>
    /\ UNCHANGED <<loaderVars, listenerVars, diffVars, indexVars, dirVars, msgVars>>

\* what the server answers to findOneAndUpdate(filter, updateDoc): a $set
\* of _version next to $inc of _version is rejected as conflicting
\* operators; a filter that matches nothing gives a null value, which the
\* asserts turn into an Error
serverAnswer(w) ==
    CASE "version" \in update_set[w] -> "Error"
      [] ~filterMatches(doc, filter[w]) -> "Error"
      [] OTHER -> "ok"

\* the answer, or a failure of the call: an Error, the RangeError of a
\* document that is too large, or a value that is no Error
UpdateOutcomes(w) ==
    {[res |-> serverAnswer(w), fault |-> 0]} \cup
    (IF faultsLeft > 0
     THEN {[res |-> r, fault |-> 1] : r \in {"Error", "RangeError", "NonError"}}
     ELSE {})

\* db.ts add: await this.collection.findOneAndUpdate(filter, updateDoc,
\* options), the asserts and the catch block
addFindOneAndUpdate(w) ==
    /\ wpc[w] = "update"
    /\ \E o \in UpdateOutcomes(w) :
        /\ faultsLeft' = faultsLeft - o.fault
        /\ doc' = IF o.res = "ok"
                  THEN updateDoc(doc, update_set[w], artifact[w], updTime[w])
                  ELSE doc
        /\ failedUpdates' = [failedUpdates EXCEPT
                                ![w] = IF o.res = "Error" THEN @ + 1 ELSE @]
        /\ CASE o.res = "ok" -> Returns(w, doc')
             [] o.res = "Error" -> Goes(w, "while")
             [] o.res = "RangeError" -> Throws(w, "ToLargeDocumentError")
             [] OTHER -> Throws(w, "NonError")
    /\ UNCHANGED <<now, msgBody, feed, retries_left, artifact, update_set,
                   filter, updTime, iterations>>
    /\ UNCHANGED <<loaderVars, listenerVars, diffVars, indexVars, dirVars, msgVars>>

\* time passes
Tick ==
    /\ now < MaxClock
    /\ now' = now + 1
    /\ UNCHANGED <<doc, msgBody, feed, pos, wpc, retries_left, artifact,
                   update_set, filter, updTime, iterations, failedUpdates,
                   result, faultsLeft, snap>>
    /\ UNCHANGED <<loaderVars, listenerVars, diffVars, indexVars, dirVars, msgVars>>

NextDB ==
    \/ \E w \in Writers : addHandler(w)
    \/ \E w \in Writers : addFindOrCreate(w)
    \/ \E w \in Writers : addFindOneAndUpdate(w)
    \/ Tick

\* ------------------------------------------------------- mk_update_set
\* Documents are trees of plain objects with leaves; the model has the
\* top-level keys a, b, c and, under b, the keys x, y, z. A node holds
\* one of these values (s: the scalar, a: the elements of the array):
Undef == [t |-> "undefined", s |-> "", a |-> <<>>]
Null == [t |-> "null", s |-> "", a |-> <<>>]
Scalar(x) == [t |-> "scalar", s |-> x, a |-> <<>>]
Array(q) == [t |-> "array", s |-> "", a |-> q]
\* a plain object; its keys are the child nodes that are not Undef
Object == [t |-> "object", s |-> "", a |-> <<>>]

Top == {"a", "b", "c"}
Kids == {"b.x", "b.y", "b.z"}
Nodes == Top \cup Kids

\* the artifact schema gives every path one type: a and c and b.x are
\* strings, b is an object, b.y is an array, b.z is a key that is absent
\* or null
ValuesAt(n) ==
    CASE n = "a" -> {Undef, Null, Scalar(""), Scalar("p"), Scalar("q")}
      [] n = "b" -> {Undef, Null, Object}
      [] n = "c" -> {Undef, Scalar("p")}
      [] n = "b.x" -> {Undef, Null, Scalar("p"), Scalar("q")}
      [] n = "b.y" -> {Undef, Null, Array(<<>>), Array(<<"p">>),
                       Array(<<"p", "q">>)}
      [] OTHER -> {Undef, Null}

\* the documents a handler can return
Docs ==
    {d \in {[n \in Nodes |-> CASE n = "a" -> va [] n = "b" -> vb
                                 [] n = "c" -> vc [] n = "b.x" -> vx
                                 [] n = "b.y" -> vy [] OTHER -> vz] :
               va \in ValuesAt("a"), vb \in ValuesAt("b"),
               vc \in ValuesAt("c"), vx \in ValuesAt("b.x"),
               vy \in ValuesAt("b.y"), vz \in ValuesAt("b.z")} :
        d["b"].t # "object" => \A k \in Kids : d[k] = Undef}

\* the documents the collection can hold: every value in it came from
\* $setOnInsert or from the $set of an update set, which carries no null
StoredDocs == {d \in Docs : \A n \in Nodes : d[n].t # "null"}

EmptyDoc == [n \in Nodes |-> Undef]

\* _.get(obj, path): the value at a path with everything below it
get(obj, path) ==
    [node |-> obj[path],
     kids |-> [k \in Kids |-> IF path = "b" THEN obj[k] ELSE Undef]]

\* _.isPlainObject(v) && !_.isEmpty(v)
notEmptyObject(obj, path) ==
    /\ obj[path].t = "object"
    /\ \E k \in Kids : path = "b" /\ obj[k] # Undef

\* paths.js paths_mongodb_pack_array: the dotted paths of the keys of obj,
\* descending into plain objects that are not empty and nowhere else
paths_mongodb_pack_array(obj) ==
    {n \in Top : obj[n] # Undef /\ ~notEmptyObject(obj, n)} \cup
    {k \in Kids : notEmptyObject(obj, "b") /\ obj[k] # Undef}

\* paths.js isEmpty(obj, path): the value is undefined or null
isEmpty(obj, path) == get(obj, path).node.t \in {"undefined", "null"}

\* paths.js drop_empty_paths(paths, obj)
drop_empty_paths(paths, obj) == {path \in paths : ~isEmpty(obj, path)}

\* values are taken for equal when they have one type
isEqualByType(new_value, old_value) == new_value.node.t = old_value.node.t

\* no two arrays are taken for equal
isEqualButArrays(new_value, old_value) ==
    new_value = old_value /\ new_value.node.t # "array"

\* no two values are taken for equal
isEqualNever(new_value, old_value) == FALSE

\* lodash _.isEqual: deep equality
isEqual(new_value, old_value) == new_value = old_value

\* db.ts mk_update_set: paths_new and paths_present after drop_empty_paths
paths_new(newdata) ==
    drop_empty_paths(paths_mongodb_pack_array(newdata), newdata)

paths_present(db_doc) ==
    drop_empty_paths(paths_mongodb_pack_array(db_doc), db_doc)

\* db.ts mk_update_set: _.differenceWith(paths_new, paths_present, ...), a
\* new path is dropped when the same path is present with an equal value
paths_update(db_doc, newdata) ==
    {new_path \in paths_new(newdata) :
        ~\E old_path \in paths_present(db_doc) :
            /\ new_path = old_path
            /\ isEqual(get(newdata, new_path), get(db_doc, old_path))}

\* db.ts mk_update_set: updateSet = _.fromPairs(pairs)
updateSet(db_doc, newdata) ==
    [path \in paths_update(db_doc, newdata) |-> get(newdata, path)]

\* the server rejects a $set of b.k when b is neither a document nor absent
setRejected(db_doc, us) ==
    \E k \in Kids \cap DOMAIN us : db_doc["b"].t \notin {"object", "undefined"}

\* the server applies $set us: a path replaces the value and all below it,
\* a path b.k sets the key k of b and creates b when it is absent
applySet(db_doc, us) ==
    [n \in Nodes |->
        CASE n \in DOMAIN us -> us[n].node
          [] n \in Kids /\ "b" \in DOMAIN us -> us["b"].kids[n]
          [] n = "b" /\ Kids \cap DOMAIN us # {} -> Object
          [] OTHER -> db_doc[n]]

IdleDiff ==
    /\ current = EmptyDoc
    /\ computed = EmptyDoc
    /\ updateSetOut = <<>>
    /\ applied = EmptyDoc
    /\ issued = FALSE
    /\ setFailed = FALSE
    /\ dpc = "idle"

\* db.ts add, one turn of the loop after the handler returned artifact and
\* findOrCreate returned db_entry
InitDiff ==
    /\ current \in StoredDocs
    /\ computed \in Docs
    /\ updateSetOut = <<>>
    /\ applied = current
    /\ issued = FALSE
    /\ setFailed = FALSE
    /\ dpc = "mk_update_set"

\* db.ts add: const update_set = this.mk_update_set(db_entry, artifact) and
\* the return on an empty update set
addMkUpdateSet ==
    /\ dpc = "mk_update_set"
    /\ updateSetOut' = updateSet(current, computed)
    /\ dpc' = IF DOMAIN updateSetOut' = {} THEN "returned" ELSE "update"
    /\ UNCHANGED <<current, computed, applied, issued, setFailed>>
    /\ UNCHANGED <<loaderVars, listenerVars, dbVars, indexVars, dirVars, msgVars>>

\* db.ts add: findOneAndUpdate(filter, {$inc, $set: update_set}) on the
\* document that was re-read
addApplyUpdate ==
    /\ dpc = "update"
    /\ issued' = TRUE
    /\ setFailed' = setRejected(current, updateSetOut)
    /\ applied' = IF setFailed' THEN current
                  ELSE applySet(current, updateSetOut)
    /\ dpc' = "returned"
    /\ UNCHANGED <<current, computed, updateSetOut>>
    /\ UNCHANGED <<loaderVars, listenerVars, dbVars, indexVars, dirVars, msgVars>>

NextUpdateSet ==
    \/ addMkUpdateSet
    \/ addApplyUpdate


\* ------------------------------------------------------------ search index
\* The index handlers turn an envelope into updates; bulkUpdate sends them as
\* update operations of one bulk request.  Field values are numbers, 0 is an
\* absent key.

MaxIdxEnv == 3
MaxArt == 2

\* two indices fed the same envelopes: the first in the order of their
\* broker_msg_id, one envelope a request, the second in any order and batching
Replicas == {1, 2}

IndexFields == {"@timestamp", "nvr", "scratch", "gateTag",
                "brokerMsgIdGateTag", "brokerMsgId", "artToMsgs.name",
                "artToMsgs.parent"}

nameArtifact == 1
nameMessage == 2

\* what a handler reads of an envelope: a CI test message on artifact art, a
\* brew build tag message of the build behind artifact art, or an errata
\* automation (ETA) run message on the build art
IdxShapes == [handler : {"test", "tag", "eta"}, art : 1..MaxArt]

\* the broker timestamp of a message; no two messages share one
getFqMsgTimestamp(fq_msg) == fq_msg

\* tag.name of a tag message; no two tag messages share one
gateTagName(fq_msg) == MaxIdxEnv + fq_msg

DocIds == ({"artifact"} \X (1..MaxArt)) \cup ({"message"} \X (1..MaxIdxEnv))

\* {}
EmptyIndexDoc == [f \in IndexFields |-> 0]

Missing == [exists |-> FALSE, source |-> EmptyIndexDoc]

\* `${type}-${id}` of body.artifact
mkParentDocId(fq_msg) == <<"artifact", envelopes[fq_msg].art>>

\* scratch of body.artifact, one value per artifact
scratchOf(art) == art

\* the document of the message itself, keyed by broker_msg_id
childUpdate(fq_msg) ==
    LET m == envelopes[fq_msg]
    IN  [docId |-> <<"message", fq_msg>>,
         doc |-> [EmptyIndexDoc EXCEPT !["nvr"] = m.art,
                                       !["scratch"] = scratchOf(m.art),
                                       !["brokerMsgId"] = fq_msg,
                                       !["@timestamp"] = getFqMsgTimestamp(fq_msg),
                                       !["artToMsgs.name"] = nameMessage,
                                       !["artToMsgs.parent"] = m.art],
         hasUpsert |-> FALSE, upsert |-> EmptyIndexDoc,
         docAsUpsert |-> TRUE]

\* searchableParent, '@timestamp' and artToMsgs of the parent document
parentDoc(fq_msg) ==
    LET m == envelopes[fq_msg]
    IN  [EmptyIndexDoc EXCEPT !["nvr"] = m.art,
                              !["scratch"] = scratchOf(m.art),
                              !["@timestamp"] = getFqMsgTimestamp(fq_msg),
                              !["artToMsgs.name"] = nameArtifact]

\* a handler that writes the parent document on every message
handlerRpmTestDocAsUpsert(fq_msg) ==
    <<childUpdate(fq_msg),
      [docId |-> mkParentDocId(fq_msg), doc |-> parentDoc(fq_msg),
       hasUpsert |-> FALSE, upsert |-> EmptyIndexDoc, docAsUpsert |-> TRUE]>>

\* part_009 handlerRpmTest: [updateForBrokerMsg, updateForParent]
handlerRpmTest(fq_msg) ==
    <<childUpdate(fq_msg),
      [docId |-> mkParentDocId(fq_msg), doc |-> EmptyIndexDoc,
       hasUpsert |-> TRUE, upsert |-> parentDoc(fq_msg),
       docAsUpsert |-> FALSE]>>

\* part_007 handler_brew_tag, the RPM branch: docId is
\* `${artifactType}-${artifactId}`, the id of the artifact's parent document
handler_brew_tag(fq_msg) ==
    LET m == envelopes[fq_msg]
    IN  <<[docId |-> <<"artifact", m.art>>,
           doc |-> [EmptyIndexDoc EXCEPT !["nvr"] = m.art,
                                         !["gateTag"] = gateTagName(fq_msg),
                                         !["brokerMsgIdGateTag"] = fq_msg,
                                         !["@timestamp"] = getFqMsgTimestamp(fq_msg),
                                         !["artToMsgs.name"] = nameArtifact],
           hasUpsert |-> FALSE, upsert |-> EmptyIndexDoc,
           docAsUpsert |-> TRUE]>>

\* msg_handlers_mbs.ts handlerCommon bound to its context: the document of
\* the message names its parent; updateForParent is built and left out of
\* the result, return [upsert]
handlerBrewBuild(fq_msg) == <<childUpdate(fq_msg)>>

\* the handler the topic of the envelope selects
indexHandler(fq_msg) ==
    CASE envelopes[fq_msg].handler = "test" -> handlerRpmTest(fq_msg)
      [] envelopes[fq_msg].handler = "tag" -> handler_brew_tag(fq_msg)
      [] OTHER -> handlerBrewBuild(fq_msg)

\* a partial document merged into a stored one: the keys it has replace the
\* stored ones
mergeDoc(source, partial) ==
    [f \in IndexFields |-> IF partial[f] # 0 THEN partial[f] ELSE source[f]]

\* one update operation {doc, upsert, doc_as_upsert} on the index
applyUpdate(ix, u) ==
    LET old == ix[u.docId]
    IN  CASE old.exists ->
               [ix EXCEPT ![u.docId].source = mergeDoc(old.source, u.doc)]
          [] ~old.exists /\ u.docAsUpsert ->
               [ix EXCEPT ![u.docId] = [exists |-> TRUE, source |-> u.doc]]
          [] ~old.exists /\ ~u.docAsUpsert /\ u.hasUpsert ->
               [ix EXCEPT ![u.docId] = [exists |-> TRUE, source |-> u.upsert]]
          [] OTHER -> ix

\* opensearch.ts bulkUpdate: the operations of one request, in their order
RECURSIVE bulk(_, _)
bulk(ix, updates) ==
    IF updates = <<>> THEN ix
    ELSE bulk(applyUpdate(ix, Head(updates)), Tail(updates))

\* the updates of a batch of envelopes, in the order they were popped
RECURSIVE batchUpdates(_)
batchUpdates(batch) ==
    IF batch = <<>> THEN <<>>
    ELSE indexHandler(Head(batch)) \o batchUpdates(Tail(batch))

IdxIds == 1..MaxIdxEnv

\* batches of one or two envelopes
Batches(pending) ==
    {<<e>> : e \in pending}
    \cup {<<p[1], p[2]>> : p \in {q \in pending \X pending : q[1] # q[2]}}

IdleIndex ==
    /\ envelopes = <<>>
    /\ indexDocs = [r \in Replicas |-> [d \in DocIds |-> Missing]]
    /\ bulked = [r \in Replicas |-> {}]

InitIndex ==
    /\ envelopes \in [IdxIds -> IdxShapes]
    /\ indexDocs = [r \in Replicas |-> [d \in DocIds |-> Missing]]
    /\ bulked = [r \in Replicas |-> {}]

\* part_013 start: the pending updates of a batch go out in one bulk request
BulkIndex ==
    \E batch \in Batches(IdxIds \ bulked[2]) :
        /\ indexDocs' = [indexDocs EXCEPT
                           ![2] = bulk(indexDocs[2], batchUpdates(batch))]
        /\ bulked' = [bulked EXCEPT ![2] = bulked[2] \cup Range(batch)]
        /\ UNCHANGED envelopes
        /\ UNCHANGED <<loaderVars, listenerVars, dbVars, diffVars, dirVars, msgVars>>

\* the same, for the first index: the next envelope of the spool alone
BulkInOrder ==
    /\ bulked[1] # IdxIds
    /\ LET e == Min(IdxIds \ bulked[1])
       IN  /\ indexDocs' = [indexDocs EXCEPT
                              ![1] = bulk(indexDocs[1], indexHandler(e))]
           /\ bulked' = [bulked EXCEPT ![1] = bulked[1] \cup {e}]
    /\ UNCHANGED envelopes
    /\ UNCHANGED <<loaderVars, listenerVars, dbVars, diffVars, dirVars, msgVars>>

NextIndex ==
    \/ BulkIndex
    \/ BulkInOrder

\* ------------------------------------------------ the spool's NEW directory
\* fqueue.ts make(path, {optimizeList: true}) replaces the listNew of the
\* queue's maildir.  Files are named by the time of their append; a file is
\* written here as the number of its arrival at the listener.

\* files appended in one behaviour
MaxSpool == 33
\* envelopes handed to the loader in one behaviour
MaxPops == 2

\* let len = 32
listNewLen == 32

\* the sets left of F when k of its files are not read
RECURSIVE Omit(_, _)
Omit(F, k) ==
    IF k = 0 THEN {F}
    ELSE UNION {Omit(F \ {x}, k - 1) : x \in F}

\* a listing of the whole directory
listNewAll(F) == {F}

\* listNew as replaced: dir.readSync() until the directory ends or 32 names
\* are read. The order in which a directory yields its entries is the file
\* system's, so the names read are any 32 of the directory, in any order
listNew(F) ==
    IF Cardinality(F) <= listNewLen THEN {F}
    ELSE Omit(F, Cardinality(F) - listNewLen)

\* the file tpop hands out of a listing: the package's own code is not in the
\* repository; it takes the first name of the list as it is, or of the list
\* sorted by name
handed(listing) ==
    IF sortsListing THEN {Min(listing)} ELSE listing

IdleDir ==
    /\ dirNew = {}
    /\ appended = 0
    /\ handedOut = <<>>
    /\ sortsListing = FALSE
    /\ listed = 0

InitDir ==
    /\ dirNew = {}
    /\ appended = 0
    /\ handedOut = <<>>
    /\ sortsListing \in BOOLEAN
    /\ listed = 0

\* part_005 process_msg: fq.push of the next envelope of the subscription
fqPush ==
    /\ appended < MaxSpool
    /\ appended' = appended + 1
    /\ dirNew' = dirNew \cup {appended + 1}
    /\ UNCHANGED <<handedOut, sortsListing, listed>>
    /\ UNCHANGED <<loaderVars, listenerVars, dbVars, diffVars, indexVars, msgVars>>

\* fqueue.ts tpop on a directory that is not empty
fqTpop ==
    /\ Len(handedOut) < MaxPops
    /\ dirNew # {}
    /\ \E listing \in listNew(dirNew) : \E file \in handed(listing) :
        /\ dirNew' = dirNew \ {file}
        /\ handedOut' = Append(handedOut, file)
        /\ listed' = Cardinality(listing)
    /\ UNCHANGED <<appended, sortsListing>>
    /\ UNCHANGED <<loaderVars, listenerVars, dbVars, diffVars, indexVars, msgVars>>

NextDir ==
    \/ fqPush
    \/ fqTpop

\* ----------------------------------------------------------------- dispatch
\* msg_handlers getHandler: the handlers of all categories are set into one
\* Map, and a topic is given to the first pair whose regex matches it.

\* pairs registered in one behaviour
MaxHandlers == 2

Topics == {"org.centos.prod.ci.koji-build.test.complete",
           "VirtualTopic.eng.brew.build.tag",
           "org.example.unknown"}

HandlerNames == {"handlerKojiCommon", "handler_brew_tag", "handlerBrewCommon"}

\* a regex is given by the topics it matches
Regexes == SUBSET Topics \ {{}}

\* re.test(broker_topic)
test(re, broker_topic) == broker_topic \in re

Undefined == [re |-> {}, handler |-> "undefined"]

\* the last pair that matches
findLast(entries, broker_topic) ==
    LET hits == {i \in DOMAIN entries : test(entries[i].re, broker_topic)}
    IN  IF hits = {} THEN Undefined
        ELSE entries[CHOOSE i \in hits : \A j \in hits : j <= i]

\* _.find(collection, predicate): the elements are tried from the first on
RECURSIVE find(_, _)
find(entries, broker_topic) ==
    IF entries = <<>> THEN Undefined
    ELSE IF test(Head(entries).re, broker_topic) THEN Head(entries)
    ELSE find(Tail(entries), broker_topic)

\* _.last([re, handler]), undefined when nothing was found
getHandler(broker_topic) == find(allKnownHandlers, broker_topic).handler

Tables ==
    UNION {[1..n -> [re : Regexes, handler : HandlerNames]] : n \in 0..MaxHandlers}

IdleMsg ==
    /\ allKnownHandlers = <<>>
    /\ msgIn = [broker_topic |-> "none"]
    /\ msgOut = [handler |-> "pending", error |-> "pending"]

InitDispatch ==
    /\ allKnownHandlers \in Tables
    /\ msgIn \in [broker_topic : Topics]
    /\ msgOut = [handler |-> "pending", error |-> "pending"]

\* db.ts add, up to the call of the handler: the handler found runs, or
\* NoAssociatedHandlerError is thrown
addDispatch ==
    /\ msgOut.error = "pending"
    /\ LET handler == getHandler(msgIn.broker_topic)
       IN  msgOut' = IF handler = "undefined"
                     THEN [handler |-> "none",
                           error |-> "NoAssociatedHandlerError"]
                     ELSE [handler |-> handler, error |-> "none"]
    /\ UNCHANGED <<allKnownHandlers, msgIn>>
    /\ UNCHANGED <<loaderVars, listenerVars, dbVars, diffVars, indexVars,
                   dirVars>>

NextDispatch == addDispatch

\* --------------------------------------------------------------- validation
\* part_002 assertMsgIsValid.  A topic is the sequence of its dot-separated
\* segments, a string the sequence of its characters.

ValidationTopics ==
    {<<"org", "centos", "prod", "ci", "koji-build", "test", "complete">>,
     <<"VirtualTopic", "eng", "ci", "brew-build", "test", "running">>,
     <<"VirtualTopic", "eng", "brew", "build", "tag">>,
     <<"ci", "example", "build", "tag">>,
     <<"org", "example", "build", "ci">>}

\* values of body.version: the type, the characters of _.toString(value) and
\* the length (strings, arrays) or number of own keys (objects)
Versions ==
    {[t |-> "undefined", str |-> <<>>, size |-> 0],
     [t |-> "null", str |-> <<>>, size |-> 0],
     [t |-> "string", str |-> <<>>, size |-> 0],
     [t |-> "string", str |-> <<"0">>, size |-> 1],
     [t |-> "string", str |-> <<"0", ".">>, size |-> 2],
     [t |-> "string", str |-> <<"0", ".", "1", ".", "0">>, size |-> 5],
     [t |-> "string", str |-> <<"1", ".", "1", ".", "1", "4">>, size |-> 6],
     [t |-> "string", str |-> <<"1", "0", ".", "0">>, size |-> 4],
     [t |-> "string", str |-> <<"0", "0", ".", "1">>, size |-> 4],
     [t |-> "number", str |-> <<"1">>, size |-> 0],
     [t |-> "number", str |-> <<"0", ".", "1">>, size |-> 0],
     [t |-> "boolean", str |-> <<"t", "r", "u", "e">>, size |-> 0],
     [t |-> "array", str |-> <<>>, size |-> 0],
     [t |-> "array", str |-> <<"0", ".", "1", ".", "0">>, size |-> 1],
     [t |-> "array", str |-> <<"1", ".", "0">>, size |-> 1],
     [t |-> "object", str |-> <<"[", "o", "b", "j", "e", "c", "t", "]">>,
      size |-> 0],
     [t |-> "object", str |-> <<"[", "o", "b", "j", "e", "c", "t", "]">>,
      size |-> 1]}

\* _.includes(broker_topic, '.ci.'): a segment ci that is neither the first
\* nor the last
includesCi(broker_topic) ==
    \E i \in 2..(Len(broker_topic) - 1) : broker_topic[i] = "ci"

isUndefined(value) == value.t = "undefined"

\* an emptiness test that looks at the length alone
isEmptyByLength(value) ==
    value.t \in {"undefined", "null"} \/ (value.t # "number" /\ value.size = 0)

\* _.isEmpty(value): null and undefined, strings and arrays of length 0,
\* objects without own keys, and every other value (numbers, booleans)
isEmptyValue(value) ==
    CASE value.t \in {"undefined", "null"} -> TRUE
      [] value.t \in {"string", "array", "object"} -> value.size = 0
      [] OTHER -> TRUE

\* _.startsWith(string, target): string is converted with _.toString
startsWith(value, target) ==
    /\ Len(value.str) >= Len(target)
    /\ SubSeq(value.str, 1, Len(target)) = target

\* what the schema set applied throws: nothing, or its error
ThrownBy(validator) ==
    IF validator = "strict" THEN {"none", "AJVValidationError"}
    ELSE {"none", "ValidationError", "NoValidationSchemaError"}

InitValidation ==
    /\ allKnownHandlers = <<>>
    /\ msgIn \in [broker_topic : ValidationTopics, version : Versions]
    /\ msgOut = [applied |-> {}, error |-> "pending"]

assertMsgIsValid ==
    /\ msgOut.error = "pending"
    /\ LET version == msgIn.version
           isCIMessage == includesCi(msgIn.broker_topic)
           strictValidation == ~startsWith(version, <<"0", ".">>)
       IN  IF isCIMessage /\ (isUndefined(version) \/ isEmptyValue(version))
           THEN msgOut' = [applied |-> {}, error |-> "WrongVersionError"]
           ELSE LET validator == IF isCIMessage /\ strictValidation
                                 THEN "strict" ELSE "relaxed"
                IN  \E err \in ThrownBy(validator) :
                        msgOut' = [applied |-> {validator}, error |-> err]
    /\ UNCHANGED <<allKnownHandlers, msgIn>>
    /\ UNCHANGED <<loaderVars, listenerVars, dbVars, diffVars, indexVars,
                   dirVars>>

NextValidation == assertMsgIsValid

\* ---------------------------------------------------------------- thread id
\* part_003 mkThreadId (document DB) and opensearch/msg_handlers.ts
\* mkThreadId (search index).  A body value is its type and its string.

ThreadTopics ==
    {<<"org", "centos", "prod", "ci", "koji-build", "test", "complete">>,
     <<"org", "centos", "prod", "ci", "koji-build", "build", "complete">>,
     <<"test", "complete">>,
     <<"complete">>}

IdValues ==
    {[t |-> "undefined", s |-> ""],
     [t |-> "string", s |-> ""],
     [t |-> "string", s |-> "pipeline-1"],
     [t |-> "string", s |-> "thread-1"],
     [t |-> "number", s |-> "7"]}

UrlValues ==
    {[t |-> "undefined", s |-> ""],
     [t |-> "string", s |-> ""],
     [t |-> "string", s |-> "https://ci.example/job/1"],
     [t |-> "number", s |-> "7"]}

\* what namespace, type and category of the body give; "" does not pass
\* assert_is_valid(test_case_name, 'test_case_name')
TestCaseNames == {"", "osci.tier1.functional", "baseos.tier2.functional"}

Pending == [kind |-> "pending", id |-> "", anchor |-> <<>>]

Thrown(error) == [kind |-> error, id |-> "", anchor |-> <<>>]

FromMessage(value) == [kind |-> "message", id |-> value.s, anchor |-> <<>>]

\* `dummy-thread-${hash}`: the digest stands for the parts joined with "~"
DummyThread(hashAnchorParts) ==
    [kind |-> "dummy-thread", id |-> "", anchor |-> hashAnchorParts]

\* _.nth(array, -k)
nth(array, k) ==
    IF Len(array) >= k THEN array[Len(array) - k + 1] ELSE "undefined"

\* _.split(body, '.') of an object body: the one piece "[object Object]"
splitBody == <<"[object Object]">>

isTestStage(split_topic) == nth(split_topic, 2) = "test"

\* _.overEvery([_.negate(_.isEmpty), _.isString])
isNonEmptyString(value) == value.t = "string" /\ value.s # ""

makeTestCaseName(body) ==
    IF body.test_case_name = "" THEN Thrown("ValidationError")
    ELSE [kind |-> "name", id |-> body.test_case_name, anchor |-> <<>>]

threadIdOf(body, testStage) ==
    IF isNonEmptyString(body.pipeline_id) THEN FromMessage(body.pipeline_id)
    ELSE IF isNonEmptyString(body.thread_id) THEN FromMessage(body.thread_id)
    ELSE LET run_url == body.run_url
             urlParts == IF isNonEmptyString(run_url) THEN <<run_url.s>>
                         ELSE <<>>
             test_case_name == makeTestCaseName(body)
         IN  IF testStage
             THEN IF test_case_name.kind = "ValidationError"
                  THEN test_case_name
                  ELSE DummyThread(Append(urlParts, test_case_name.id))
             ELSE IF urlParts = <<>> THEN Thrown("NoThreadIdError")
                  ELSE DummyThread(urlParts)

\* part_003 line 112: isTestStage(body)
mkThreadId(fq_msg) == threadIdOf(fq_msg, isTestStage(splitBody))

\* opensearch/msg_handlers.ts line 96: isTestStage(broker_topic)
mkThreadIdIndex(fq_msg) == threadIdOf(fq_msg, isTestStage(fq_msg.broker_topic))

InitThreadId ==
    /\ allKnownHandlers = <<>>
    /\ msgIn \in [broker_topic : ThreadTopics, pipeline_id : IdValues,
                  thread_id : IdValues, run_url : UrlValues,
                  test_case_name : TestCaseNames]
    /\ msgOut = [db |-> Pending, index |-> Pending]

\* part_003 makeState: var thread_id = mkThreadId(fq_msg)
makeState ==
    /\ msgOut.db = Pending
    /\ msgOut' = [msgOut EXCEPT !.db = mkThreadId(msgIn)]
    /\ UNCHANGED <<allKnownHandlers, msgIn>>
    /\ UNCHANGED <<loaderVars, listenerVars, dbVars, diffVars, indexVars,
                   dirVars>>

\* part_009 mkSearchableRpmTest...: var threadId = mkThreadId(fq_msg)
mkSearchable ==
    /\ msgOut.index = Pending
    /\ msgOut' = [msgOut EXCEPT !.index = mkThreadIdIndex(msgIn)]
    /\ UNCHANGED <<allKnownHandlers, msgIn>>
    /\ UNCHANGED <<loaderVars, listenerVars, dbVars, diffVars, indexVars,
                   dirVars>>

NextThreadId == makeState \/ mkSearchable

\* ------------------------------------------------- artifact identity
\* db.ts Artifacts.add and Artifacts.findOrCreate over a collection of
\* several artifact documents: the fields type and aid.  The collection is
\* the sequence of its documents, _id the position.

\* documents in the collection
MaxDocs == 2
\* envelopes handed to Artifacts.add in one behaviour
MaxAdds == 2

ArtifactTypes == {"koji-build", "brew-build"}

\* body.artifact.id as the message carries it
ArtifactIds ==
    {[t |-> "number", s |-> "7"],
     [t |-> "string", s |-> "7"],
     [t |-> "string", s |-> "8"]}

\* _.toString(task_id)
toString(value) == value.s

\* payload.nvr of a message
Nvrs == {"nvr-a", "nvr-b"}

NoArtifact ==
    [id |-> 0, type |-> "none", aid |-> "none", version |-> 0, nvr |-> "none"]

\* $setOnInsert: { type, aid, _version: 1, _updated }
newDocument(type, aid) ==
    [type |-> type, aid |-> aid, version |-> 1, nvr |-> "none"]

\* a filter that looks at aid alone
filterAid(document, type, aid) == document.aid = aid

\* findOrCreate: query / filter { type, aid }
filterTypeAid(document, type, aid) ==
    document.type = type /\ document.aid = aid

Found(collection, type, aid) ==
    {i \in DOMAIN collection : filterTypeAid(collection[i], type, aid)}

\* what findOneAndUpdate with upsert and returnOriginal: false can answer:
\* the collection afterwards and the _id of the document returned
findOrCreateIn(collection, type, aid) ==
    IF Found(collection, type, aid) = {}
    THEN {[collection |-> Append(collection, newDocument(type, aid)),
           id |-> Len(collection) + 1]}
    ELSE {[collection |-> collection, id |-> i] :
            i \in Found(collection, type, aid)}

\* the document as the driver returns it
returned(collection, id) ==
    [id |-> id, type |-> collection[id].type, aid |-> collection[id].aid,
     version |-> collection[id].version, nvr |-> collection[id].nvr]

\* mk_update_set on the paths type, aid and payload.nvr
IdentityPaths == {"type", "aid", "nvr"}

identityUpdateSet(present, newdata) ==
    {p \in IdentityPaths :
        newdata[p] # "none" /\ ~(present[p] # "none" /\ newdata[p] = present[p])}

\* {$inc: {_version: 1}, $set: update_set} on the document the filter finds
setIdentity(document, updateSetOf, newdata) ==
    [type |-> IF "type" \in updateSetOf THEN newdata.type ELSE document.type,
     aid |-> IF "aid" \in updateSetOf THEN newdata.aid ELSE document.aid,
     version |-> document.version + 1,
     nvr |-> IF "nvr" \in updateSetOf THEN newdata.nvr ELSE document.nvr]

\* collections left by earlier runs: documents of distinct (type, aid)
Collections ==
    {<<>>} \cup {<<newDocument(t, a)>> : t \in ArtifactTypes, a \in {"7", "8"}}
    \cup {<<newDocument(p[1], p[2]), newDocument(p[3], p[4])>> :
            p \in {q \in ArtifactTypes \X {"7", "8"} \X ArtifactTypes
                         \X {"7", "8"} : q[1] # q[3] \/ q[2] # q[4]}}

\* msgIn is the run of Artifacts.add at hand, msgOut the collection, the
\* (type, aid) each document was created with, and the envelopes taken
InitIdentity ==
    /\ allKnownHandlers = <<>>
    /\ msgIn = [pc |-> "idle", artifact |-> NoArtifact, db_entry |-> NoArtifact]
    /\ \E c \in Collections :
          msgOut = [collection |-> c,
                    created |-> [i \in DOMAIN c |-> <<c[i].type, c[i].aid>>],
                    adds |-> 0]

\* add: artifact = await handler(this, message); the handler calls
\* findOrCreate(type, _.toString(task_id)) and merges the payload into the
\* document it got
identityHandler ==
    /\ msgIn.pc = "idle"
    /\ msgOut.adds < MaxAdds
    /\ \E type \in ArtifactTypes, task_id \in ArtifactIds, nvr \in Nvrs :
         \E r \in findOrCreateIn(msgOut.collection, type, toString(task_id)) :
            /\ Len(r.collection) <= MaxDocs
            /\ msgOut' = [collection |-> r.collection,
                          created |->
                             IF Len(r.collection) > Len(msgOut.collection)
                             THEN Append(msgOut.created,
                                         <<type, toString(task_id)>>)
                             ELSE msgOut.created,
                          adds |-> msgOut.adds + 1]
            /\ msgIn' = [pc |-> "handled",
                         artifact |-> [returned(r.collection, r.id)
                                          EXCEPT !.nvr = nvr],
                         db_entry |-> NoArtifact]
    /\ UNCHANGED allKnownHandlers
    /\ UNCHANGED <<loaderVars, listenerVars, dbVars, diffVars, indexVars,
                   dirVars>>

\* add: const { type, aid } = artifact; db_entry = await
\* this.findOrCreate(type, aid)
identityFindOrCreate ==
    /\ msgIn.pc = "handled"
    /\ \E r \in findOrCreateIn(msgOut.collection, msgIn.artifact.type,
                               msgIn.artifact.aid) :
            /\ Len(r.collection) <= MaxDocs
            /\ msgOut' = [msgOut EXCEPT
                            !.collection = r.collection,
                            !.created =
                               IF Len(r.collection) > Len(msgOut.collection)
                               THEN Append(@, <<msgIn.artifact.type,
                                                msgIn.artifact.aid>>)
                               ELSE @]
            /\ msgIn' = [msgIn EXCEPT !.pc = "found",
                                      !.db_entry = returned(r.collection, r.id)]
    /\ UNCHANGED allKnownHandlers
    /\ UNCHANGED <<loaderVars, listenerVars, dbVars, diffVars, indexVars,
                   dirVars>>

\* add: update_set = mk_update_set(db_entry, artifact); an empty set returns,
\* otherwise findOneAndUpdate(_.pick(db_entry, '_id', '_version'), updateDoc)
identityFindOneAndUpdate ==
    /\ msgIn.pc = "found"
    /\ LET updateSetOf == identityUpdateSet(msgIn.db_entry, msgIn.artifact)
           id == msgIn.db_entry.id
       IN  IF updateSetOf # {}
              /\ msgOut.collection[id].version = msgIn.db_entry.version
           THEN msgOut' = [msgOut EXCEPT
                              !.collection[id] =
                                  setIdentity(@, updateSetOf, msgIn.artifact)]
           ELSE UNCHANGED msgOut
    /\ msgIn' = [pc |-> "idle", artifact |-> NoArtifact,
                 db_entry |-> NoArtifact]
    /\ UNCHANGED allKnownHandlers
    /\ UNCHANGED <<loaderVars, listenerVars, dbVars, diffVars, indexVars,
                   dirVars>>

NextIdentity ==
    \/ identityHandler
    \/ identityFindOrCreate
    \/ identityFindOneAndUpdate

\* ------------------------------------------------------------- koji_query
\* koji_query: retry.operation({retries, factor, minTimeout, maxTimeout,
\* randomize}) around one XML-RPC call.  Times are in seconds.

\* retries: 5
kojiRetries == 5
\* factor: 3
factor == 3
\* minTimeout: 1 * 1000
minTimeout == 1
\* maxTimeout: 60 * 1000
maxTimeout == 60

\* randomize: true multiplies a timeout by a number between 1 and 2
Jitter == {1, 2}

\* the timeout before retry number n (n = 1 is the first retry)
timeoutOf(n, random) ==
    LET timeout == random * minTimeout * factor ^ (n - 1)
    IN  IF timeout < maxTimeout THEN timeout ELSE maxTimeout

\* an operation that gives up one retry earlier
operationRetryFewer(retried) == retried + 1 < kojiRetries

\* operation.retry(error): false when the maximum amount of retries has
\* been reached, otherwise true and the operation runs again after the
\* timeout
operationRetry(retried) == retried < kojiRetries

CallOutcomes == {"value", "error"}

\* msgIn is the call at hand, msgOut what koji_query did so far
InitKoji ==
    /\ allKnownHandlers = <<>>
    /\ msgIn = [method |-> "getBuild", state |-> "attempt"]
    /\ msgOut = [attempts |-> 0, timeouts |-> <<>>]

\* operation.attempt(fn): methodCall and its callback
kojiMethodCall ==
    /\ msgIn.state = "attempt"
    /\ \E outcome \in CallOutcomes, random \in Jitter :
        LET retried == Len(msgOut.timeouts) IN
        IF outcome = "value"
        THEN /\ msgIn' = [msgIn EXCEPT !.state = "resolved"]
             /\ msgOut' = [msgOut EXCEPT !.attempts = @ + 1]
        ELSE IF operationRetry(retried)
        THEN /\ msgIn' = [msgIn EXCEPT !.state = "timeout"]
             /\ msgOut' = [attempts |-> msgOut.attempts + 1,
                           timeouts |-> Append(msgOut.timeouts,
                                               timeoutOf(retried + 1, random))]
        ELSE /\ msgIn' = [msgIn EXCEPT !.state = "rejected"]
             /\ msgOut' = [msgOut EXCEPT !.attempts = @ + 1]
    /\ UNCHANGED allKnownHandlers
    /\ UNCHANGED <<loaderVars, listenerVars, dbVars, diffVars, indexVars,
                   dirVars>>

\* the timeout of the retry passes and the operation is attempted again
kojiTimeout ==
    /\ msgIn.state = "timeout"
    /\ msgIn' = [msgIn EXCEPT !.state = "attempt"]
    /\ UNCHANGED <<allKnownHandlers, msgOut>>
    /\ UNCHANGED <<loaderVars, listenerVars, dbVars, diffVars, indexVars,
                   dirVars>>

NextKoji == kojiMethodCall \/ kojiTimeout

\* ------------------------------------------------------- bulk request body
\* OpensearchClient.bulkUpdate in its two versions (opensearch/opensearch.ts
\* and part_010): the lines of the body given to client.bulk.  A line is
\* written with all keys; keys holds the keys the line has.

\* updates of one flush
MaxUpdates == 2

BulkClients == {"opensearch.ts", "part_010"}

\* the updates the handlers return: a child with doc_as_upsert, a parent
\* with an upsert document, a tag update
PendingUpdates ==
    {[indexName |-> "rpm", docId |-> d, routing |-> r, doc |-> c[1],
      upsert |-> c[2], docAsUpsert |-> c[3]] :
        d \in {"msg-1", "koji-build-7"}, r \in {"koji-build-7"},
        c \in {<<"searchable", "undefined", TRUE>>,
               <<"{}", "parentDoc", FALSE>>}}

RECURSIVE SeqsUpTo(_, _)
SeqsUpTo(S, n) ==
    IF n = 0 THEN {<<>>}
    ELSE SeqsUpTo(S, n - 1) \cup
         {Append(q, x) : q \in {t \in SeqsUpTo(S, n - 1) : Len(t) = n - 1},
                         x \in S}

\* { update: { _index, _id, routing } }
actionLine(update) ==
    [keys |-> {"update"}, _index |-> update.indexName, _id |-> update.docId,
     routing |-> update.routing, doc |-> "undefined", upsert |-> "undefined",
     doc_as_upsert |-> FALSE, retry_on_conflict |-> 0]

\* { doc, upsert, doc_as_upsert } of opensearch.ts; a key whose value is
\* undefined is not serialised
sourceLine(update) ==
    [keys |-> {"doc", "doc_as_upsert"} \cup
              (IF update.upsert = "undefined" THEN {} ELSE {"upsert"}),
     _index |-> "undefined", _id |-> "undefined", routing |-> "undefined",
     doc |-> update.doc, upsert |-> update.upsert,
     doc_as_upsert |-> update.docAsUpsert, retry_on_conflict |-> 0]

\* { doc, upsert, doc_as_upsert, retry_on_conflict: 10 } of part_010
sourceLineRetrying(update) ==
    [sourceLine(update) EXCEPT !.keys = @ \cup {"retry_on_conflict"},
                               !.retry_on_conflict = 10]

\* _.flatMap(updates, (update) => [action, source])
RECURSIVE flatMap(_, _)
flatMap(updates, client) ==
    IF updates = <<>> THEN <<>>
    ELSE <<actionLine(Head(updates)),
           IF client = "part_010" THEN sourceLineRetrying(Head(updates))
           ELSE sourceLine(Head(updates))>>
         \o flatMap(Tail(updates), client)

\* msgIn is the flush at hand, msgOut the requests given to client.bulk
InitBulkBody ==
    /\ allKnownHandlers = <<>>
    /\ msgIn \in [client : BulkClients,
                  updates : SeqsUpTo(PendingUpdates, MaxUpdates) \ {<<>>}]
    /\ msgOut = [requests |-> <<>>, errors |-> "pending"]

\* bulkUpdate(updates): one client.bulk({ body }); response.errors other
\* than false is thrown as an Error
sendBulk ==
    /\ msgOut.errors = "pending"
    /\ \E errors \in {"false", "true"} :
        msgOut' = [requests |-> <<flatMap(msgIn.updates, msgIn.client)>>,
                   errors |-> errors]
    /\ UNCHANGED <<allKnownHandlers, msgIn>>
    /\ UNCHANGED <<loaderVars, listenerVars, dbVars, diffVars, indexVars,
                   dirVars>>

NextBulkBody == sendBulk

\* ------------------------------------------------- rollback and process.exit
\* The fatal paths of the loaders: fq_rollback(callback) of every claimed
\* entry, then process.exit(1) in the same turn.  The rollback reports its
\* completion through the callback; the turn does not wait for it.

\* envelopes in the spool in one behaviour
MaxHeld == 5

HeldIds == 1..MaxHeld

\* loader.ts holds one entry at a time, part_013 a batch
ExitKinds == {"db", "bulk"}

\* what the catch block got: an Error, or a value that is rethrown
CaughtValues == {"Error", "NonError"}

\* msgIn is the loader process, msgOut the spool: files in the active
\* directory, files in the claim directory, entries whose rollback was called
InitExit ==
    /\ allKnownHandlers = <<>>
    /\ \E k \in ExitKinds : msgIn = [kind |-> k, exitCode |-> -1]
    /\ msgOut = [active |-> {}, claim |-> {}, rollbackCalled |-> {},
                 pushed |-> 0]

exitPush ==
    /\ msgOut.pushed < MaxHeld
    /\ msgOut' = [msgOut EXCEPT !.active = @ \cup {msgOut.pushed + 1},
                                !.pushed = @ + 1]
    /\ UNCHANGED <<allKnownHandlers, msgIn>>
    /\ UNCHANGED <<loaderVars, listenerVars, dbVars, diffVars, indexVars,
                   dirVars>>

\* await fq.tpop(fqueue): the file moves to the claim directory
exitTpop ==
    /\ msgIn.exitCode = -1
    /\ msgOut.active # {}
    /\ msgIn.kind = "db" => msgOut.claim = {}
    /\ LET e == Min(msgOut.active) IN
        msgOut' = [msgOut EXCEPT !.active = @ \ {e}, !.claim = @ \cup {e}]
    /\ UNCHANGED <<allKnownHandlers, msgIn>>
    /\ UNCHANGED <<loaderVars, listenerVars, dbVars, diffVars, indexVars,
                   dirVars>>

\* the renames that finished when the process ended: process.exit does not
\* wait for pending callbacks, so any of them
completedAtExit(called) == SUBSET called

\* loader.ts 231-241 and 199-205, part_013 rollbackAndExit: an Error is
\* logged, rollback is called for every entry held and process.exit(1)
\* follows; any other value is rethrown and ends the process through
\* start().catch
rollbackThenExit ==
    /\ msgIn.exitCode = -1
    /\ msgOut.claim # {}
    /\ \E err \in CaughtValues :
        LET called == IF err = "Error" THEN msgOut.claim ELSE {} IN
        \E done \in completedAtExit(called) :
            /\ msgOut' = [msgOut EXCEPT !.rollbackCalled = called,
                                        !.active = @ \cup done,
                                        !.claim = @ \ done]
            /\ msgIn' = [msgIn EXCEPT !.exitCode = 1]
    /\ UNCHANGED allKnownHandlers
    /\ UNCHANGED <<loaderVars, listenerVars, dbVars, diffVars, indexVars,
                   dirVars>>

NextExit == exitPush \/ exitTpop \/ rollbackThenExit

\* --------------------------------------------------------- specifications
InitSpecLoader == InitLoader /\ IdleListener /\ IdleDB /\ IdleDiff /\ IdleIndex /\ IdleDir /\ IdleMsg

SpecLoader == InitSpecLoader /\ [][NextLoader]_vars

\* the bulk loader's own steps: a process that runs takes its next step; a
\* tpop on an empty spool waits
BulkLoaderStep ==
    \/ Start
    \/ GetAllSchemas
    \/ TpopBulk
    \/ GetMsgUpdates
    \/ BulkUpdate

\* the loaders with a bulk loader that keeps running; no envelope is bound
\* to arrive
SpecLoaderFair ==
    InitSpecLoader /\ [][NextLoader]_vars /\ WF_vars(BulkLoaderStep)

\* the idle loader of the specifications of the other parts
IdleLoader == InitLoader /\ kind = "db"

\* the bulk loader at its loop, with the stream of envelopes it will be given
InitSpecBulk ==
    /\ kind = "bulk"
    /\ nextId = 0
    /\ envClass \in BulkStreams
    /\ fq = fqEmpty
    /\ orphaned = {}
    /\ lpc = "tpop"
    /\ cur = NoEnv
    /\ curErr = "none"
    /\ fqEntries = <<>>
    /\ bulkUpdates = <<>>
    /\ bulkSizeBytes = 0
    /\ secondsBetweenMessages = 0
    /\ stores = storesEmpty
    /\ failedBatch = {}
    /\ exitCode = -1
    /\ schemasState = "done"
    /\ IdleListener
    /\ IdleDB
    /\ IdleDiff
    /\ IdleIndex
    /\ IdleDir
    /\ IdleMsg

SpecBulk == InitSpecBulk /\ [][NextBulk]_vars

InitSpecListener == IdleLoader /\ InitListener /\ IdleDB /\ IdleDiff /\ IdleIndex /\ IdleDir /\ IdleMsg

SpecListener == InitSpecListener /\ [][NextListener]_vars

InitSpecDB == IdleLoader /\ IdleListener /\ InitDB /\ IdleDiff /\ IdleIndex /\ IdleDir /\ IdleMsg

SpecDB == InitSpecDB /\ [][NextDB]_vars

InitSpecUpdateSet == IdleLoader /\ IdleListener /\ IdleDB /\ InitDiff /\ IdleIndex /\ IdleDir /\ IdleMsg

SpecUpdateSet == InitSpecUpdateSet /\ [][NextUpdateSet]_vars

InitSpecIndex == IdleLoader /\ IdleListener /\ IdleDB /\ IdleDiff /\ InitIndex /\ IdleDir /\ IdleMsg

SpecIndex == InitSpecIndex /\ [][NextIndex]_vars

InitSpecDir ==
    /\ IdleLoader /\ IdleListener /\ IdleDB /\ IdleDiff /\ IdleIndex
    /\ InitDir /\ IdleMsg

SpecDir == InitSpecDir /\ [][NextDir]_vars

IdleParts ==
    IdleLoader /\ IdleListener /\ IdleDB /\ IdleDiff /\ IdleIndex /\ IdleDir

InitSpecDispatch == IdleParts /\ InitDispatch

SpecDispatch == InitSpecDispatch /\ [][NextDispatch]_vars

InitSpecValidation == IdleParts /\ InitValidation

SpecValidation == InitSpecValidation /\ [][NextValidation]_vars

InitSpecThreadId == IdleParts /\ InitThreadId

SpecThreadId == InitSpecThreadId /\ [][NextThreadId]_vars

InitSpecIdentity == IdleParts /\ InitIdentity

SpecIdentity == InitSpecIdentity /\ [][NextIdentity]_vars

InitSpecKoji == IdleParts /\ InitKoji

SpecKoji == InitSpecKoji /\ [][NextKoji]_vars

InitSpecBulkBody == IdleParts /\ InitBulkBody

SpecBulkBody == InitSpecBulkBody /\ [][NextBulkBody]_vars

InitSpecExit == IdleParts /\ InitExit

SpecExit == InitSpecExit /\ [][NextExit]_vars

\* ----------------------------------------------------- loader properties
\* the writes the handler of envelope e makes are in the datastore
Processed(e) ==
    CASE kind = "db" -> e \in stores.artifacts /\ e \in stores.raw
      [] kind = "legacy" -> e \in stores.artifacts
      [] OTHER -> \A role \in {"parent", "child"} :
                     \E u \in stores.index : u.env = e /\ u.role = role

\* a record of envelope e is in a sink for messages that were not processed
Recorded(e) ==
    \/ e \in stores.invalid
    \/ e \in stores.nohandler
    \/ Update(e, "invalid") \in stores.index

\* envelopes whose processing calls for no write at all: the envelope-shape
\* check failed, or the handler raised NoNeedToProcessError
NothingToWrite(e) == envClass[e] \in {"badshape", "noneed"}

\* C1: an envelope is committed (removed from the spool) only if its
\* handler's writes have been durably applied to the datastore or a record
\* of it has been written to the invalid sink; no envelope is committed
\* without successful processing or a recorded failure. Envelopes the
\* loaders drop by design, for which there is nothing to write, are not
\* counted against the statement.
C1_CommitOnlyAfterWritesOrRecord ==
    \A e \in fq.committed : Processed(e) \/ Recorded(e) \/ NothingToWrite(e)

\* C2 as stated: for every envelope returned by tpop exactly one of commit
\* or rollback is invoked before the loader calls tpop again, and the
\* loader never holds two claimed, unresolved envelopes at the same time.
C2_OneUnresolvedEnvelope ==
    /\ Cardinality(held) <= 1
    /\ (Running /\ lpc = "tpop") => held = {}
    /\ \A e \in EnvIds : fq.commits[e] + fq.rollbacks[e] <= 1

\* the loader has not popped yet or is about to pop the next envelope
BetweenIterations == lpc \in {"start", "getAllSchemas", "tpop"}

\* C2 amended: the document-DB loaders resolve the envelope of an iteration
\* with exactly one of commit or rollback before they call tpop again and so
\* hold at most one unresolved envelope; the bulk loader keeps every
\* envelope of the pending batch (fqEntries) unresolved across tpop calls;
\* in every loader no envelope has commit or rollback invoked more than
\* once, and an unresolved envelope has had neither.
C2_SerialOrBatched ==
    /\ kind \in {"db", "legacy"} =>
          /\ Cardinality(held) <= 1
          /\ (Running /\ BetweenIterations) => held = {}
          /\ (Running /\ ~BetweenIterations) => held = {cur}
    /\ (kind = "bulk" /\ Running) => held = Range(fqEntries)
    /\ \A e \in EnvIds : fq.commits[e] + fq.rollbacks[e] <= 1
    /\ \A e \in held : fq.commits[e] = 0 /\ fq.rollbacks[e] = 0

\* two envelopes went through the serial loop of the document-DB loader,
\* one committed and one rolled back and popped no more, and a batch of
\* two is pending in the bulk loader
C2_Witness ==
    \/ /\ kind = "db" /\ Cardinality(fq.committed) = 2
       /\ Running /\ lpc = "tpop"
    \/ /\ kind = "bulk" /\ Cardinality(held) = 2

C11_FlushAtCountOrSize ==
    (kind = "bulk" /\ Running /\ lpc = "tpop") =>
        /\ Len(bulkUpdates) < 100
        /\ bulkSizeBytes < 50 * 1024

\* C12: in the bulk loader an envelope that arrives after an idle gap of
\* more than 3 s is not part of the batch that was pending before the gap:
\* a bulk request issued right after such an envelope holds the updates of
\* that envelope alone.
C12_IdleGapSplitsBatch ==
    (kind = "bulk" /\ lpc = "bulk" /\ secondsBetweenMessages > 3000) =>
        Len(fqEntries) = 1

\* the errors C13 names
C13_Errors == {"WrongVersionError", "NoValidationSchemaError",
               "ValidationError", "AJVValidationError",
               "NoAssociatedHandlerError", "ToLargeDocumentError"}

\* C13: when processing an envelope raises WrongVersionError,
\* NoValidationSchemaError, a schema ValidationError (strict or relaxed),
\* NoAssociatedHandlerError or ToLargeDocumentError, the loader goes on to
\* record the envelope in the invalid sink instead of rolling back or
\* exiting, and such an envelope is committed only with its record in the
\* sink. In the bulk loader the record is an update of the pending batch and
\* the error never leaves getMsgUpdates.
C13_InvalidRecordedThenCommitted ==
    /\ kind = "db" =>
          /\ curErr \in C13_Errors =>
                (Running /\ lpc = "invalid" /\ cur \in held)
          /\ \A e \in fq.committed :
                ErrorOf(envClass[e]) \in C13_Errors => e \in stores.invalid
    /\ kind = "bulk" =>
          /\ curErr \notin C13_Errors
          /\ \A e \in EnvIds :
                ErrorOf(envClass[e]) \in C13_Errors \ {"ToLargeDocumentError"} =>
                    /\ e \in fq.committed =>
                          Update(e, "invalid") \in stores.index
                    /\ (e \in Range(fqEntries) /\ cur # e) =>
                          Update(e, "invalid") \in Range(bulkUpdates)

\* the document-DB loader recorded and committed two envelopes, one with a
\* wrong version and one whose document was too large, and waits for the
\* next envelope
C13_Witness ==
    /\ kind = "db" /\ Running /\ lpc = "tpop"
    /\ envClass[1] = "wrongversion" /\ envClass[2] = "toolarge"
    /\ fq.committed = {1, 2}
    /\ stores.invalid = {1, 2}

\* C14: an envelope whose thread id cannot be derived (NoThreadIdError) is
\* handled as a validation failure: the loader neither rolls it back nor
\* exits because of it, and it is committed with a record in the invalid
\* sink.
C14_NoThreadIdIsValidationFailure ==
    /\ curErr = "NoThreadIdError" => Running
    /\ \A e \in EnvIds : envClass[e] = "nothreadid" =>
          /\ fq.rollbacks[e] = 0
          /\ e \in fq.committed => Recorded(e)

\* C15: an envelope whose handler raises NoNeedToProcessError causes no write
\* to any collection or index, and the document-DB loader commits it: it is
\* never rolled back and is unresolved only while add_to_db runs on it.
C15_NoNeedCommittedSilently ==
    kind \in {"db", "bulk"} =>
        \A e \in EnvIds : envClass[e] = "noneed" =>
            /\ e \notin stores.artifacts \cup stores.raw
            /\ e \notin stores.invalid \cup stores.nohandler
            /\ \A u \in stores.index \cup Range(bulkUpdates) : u.env # e
            /\ kind = "db" =>
                  /\ fq.rollbacks[e] = 0
                  /\ e \in held => (cur = e /\ lpc = "add")

\* the document-DB loader committed an envelope its handler declined, wrote
\* nothing, and waits for the next envelope
C15_Witness ==
    /\ kind = "db" /\ Running /\ lpc = "tpop"
    /\ envClass[1] = "noneed"
    /\ 1 \in fq.committed
    /\ stores = storesEmpty

\* ---------------------------------------------------- listener properties
\* C3: for every broker message whose body parses as JSON, the delivery is
\* accepted only after the append of its envelope to the spool completed
\* successfully; a message whose append failed is not accepted.
C3_AcceptOnlyAfterAppend ==
    \A m \in BrokerMsgs :
        (msgForm[m] = "json" /\ accepted[m]) => pushState[m] = "resolved"

\* ------------------------------------------------------ writer properties
\* every add of every writer returned
AllReturned == \A w \in Writers : pos[w] = Len(feed[w]) /\ wpc[w] = "idle"

\* the messages given to the writers
Delivered == UNION {Range(feed[w]) : w \in Writers}

\* the values the delivered messages carry for a payload field
Contributed(f) == {msgBody[m][f] : m \in Delivered} \ {"none"}

\* C5: once the writers that ran Artifacts.add concurrently on one
\* (type, aid) have all returned, the document holds the state entry of
\* every message and, for every payload field, a value one of the messages
\* contributed (no lost update).
C5_NoLostUpdate ==
    AllReturned =>
        /\ \A m \in Delivered : m \in Range(doc.states)
        /\ \A f \in {"source", "scratch"} :
              Contributed(f) # {} => doc[f] \in Contributed(f)
        /\ Contributed("source") \ {""} # {} => doc.source # ""

\* two writers with different messages returned, one of them after an
\* update that modified nothing because the other writer came first
C5_Witness ==
    /\ AllReturned
    /\ feed[1] = <<1>> /\ feed[2] = <<2>>
    /\ faultsLeft = MaxFaults
    /\ \E w \in Writers : failedUpdates[w] > 0
    /\ Range(doc.states) = {1, 2}

\* C6: _version is 1 when findOrCreate inserts the document, every
\* successful update raises it by one, and it never decreases or repeats.
C6_VersionStrictlyIncreasing ==
    [][ /\ (~doc.exists /\ doc'.exists) => doc'.version = 1
        /\ doc.exists =>
              /\ doc'.exists
              /\ doc'.version >= doc.version
              /\ doc' # doc => doc'.version = doc.version + 1 ]_vars

\* the document was inserted and then updated three times
C6_Witness == doc.exists /\ doc.version = 4

\* C7: no document's states[] holds two entries with the same
\* kai_state.msg_id, whatever envelopes, duplicates included, were
\* delivered.
C7_NoDuplicateStates ==
    \A i, j \in DOMAIN doc.states : doc.states[i] = doc.states[j] => i = j

\* two writers were given the same message and both returned
C7_Witness ==
    /\ AllReturned
    /\ feed[1] = <<1>> /\ feed[2] = <<1>>
    /\ doc.states = <<1>>

\* a feed that is a sequence followed by a replay of it
IsReplay(f) ==
    /\ Len(f) > 0
    /\ Len(f) % 2 = 0
    /\ SubSeq(f, 1, Len(f) \div 2) = SubSeq(f, Len(f) \div 2 + 1, Len(f))

\* C8: processing a sequence S followed by a replay of S leaves the
\* document as processing S once left it; the same envelope delivered twice
\* leaves one entry in states[] and increments _version at most once.
C8_ReplayIdempotent ==
    (feed[2] = <<>> /\ IsReplay(feed[1]) /\ AllReturned) =>
        /\ doc = snap
        /\ Len(feed[1]) = 2 => Len(doc.states) = 1 /\ doc.version <= 2

\* C9: add gives up with its fatal error when the conditional update has
\* failed to modify the document 30 times in a row, never earlier and never
\* later.
C9_ThirtyAttempts ==
    \A w \in Writers :
        (result[w] = "AllAttemptsFailed" /\ failedUpdates[w] = iterations[w])
            => failedUpdates[w] = retries

\* ------------------------------------------------ mk_update_set properties
\* the paths of a document that resolve to a value other than null and
\* undefined
ValuePaths(d) == drop_empty_paths(paths_mongodb_pack_array(d), d)

S5_current ==
    [n \in Nodes |-> CASE n = "a" -> Scalar("p") [] n = "b" -> Object
                       [] n = "b.x" -> Scalar("p")
                       [] n = "b.y" -> Array(<<"p", "q">>)
                       [] n = "c" -> Scalar("p") [] OTHER -> Undef]

S5_computed ==
    [n \in Nodes |-> CASE n = "a" -> Scalar("p") [] n = "b" -> Object
                       [] n = "b.x" -> Scalar("q")
                       [] n = "b.y" -> Array(<<"p", "q">>)
                       [] n = "b.z" -> Null [] OTHER -> Undef]

C18_EmittedArrayOrScalar ==
    \A path \in DOMAIN updateSetOut :
        /\ get(current, path) # get(computed, path)
        /\ computed[path].t \in {"array", "scalar"}

\* C18 amended: for every path emitted by mk_update_set(a, b) the value in
\* a differs from the value in b, and the value in b is a leaf: an array, a
\* scalar or an empty object; no path is emitted whose value is equal in a
\* and b.
C18_EmittedLeafDiffers ==
    \A path \in DOMAIN updateSetOut :
        /\ get(current, path) # get(computed, path)
        /\ updateSetOut[path] = get(computed, path)
        /\ \/ computed[path].t \in {"array", "scalar"}
           \/ /\ computed[path].t = "object"
              /\ \A k \in Kids : updateSetOut[path].kids[k] = Undef

\* an update set with a changed scalar, a changed array and an empty
\* object where the stored document had a scalar equal to the new one left
\* out
C18_Witness ==
    /\ dpc = "update"
    /\ DOMAIN updateSetOut = {"a", "b"}
    /\ computed["b"] = Object /\ current["b"] = Undef
    /\ computed["c"] = Scalar("p") /\ current["c"] = Scalar("p")

EmptyOrNull(d, path) ==
    \/ d[path].t \in {"undefined", "null"}
    \/ d[path] \in {Scalar(""), Array(<<>>)}
    \/ d[path].t = "object" /\ ~notEmptyObject(d, path)

\* C20: a path whose value in the new data is null, undefined or empty
\* never causes an update that replaces or removes a value stored at or
\* below that path in the current document.
C20_EmptyNeverOverwrites ==
    dpc = "returned" =>
        \A path \in Nodes :
            (EmptyOrNull(computed, path) /\ get(current, path).node # Undef) =>
                get(applied, path) = get(current, path)

\* ------------------------------------------------------- index properties
ParentOf(r, art) == indexDocs[r][<<"artifact", art>>]

ParentNext(r, art) == indexDocs'[r][<<"artifact", art>>]

\* the envelopes of the bulk request of a step
Sent(r) == bulked'[r] \ bulked[r]

C22_OrderIndependent ==
    (bulked[1] = IdxIds /\ bulked[2] = IdxIds) => indexDocs[1] = indexDocs[2]

\* C23: the step in which the loader handles SIGINT, SIGTERM or SIGABRT
\* commits nothing and exits with code 0, and every envelope the process had
\* claimed and not resolved is still in the claim directory, uncommitted,
\* for as long as the process stays down.
C23_SignalCommitsNothing ==
    /\ [][(exitCode = -1 /\ exitCode' = 0) =>
            /\ fq' = fq
            /\ orphaned' = fq.claim
            /\ lpc' = "exited"]_vars
    /\ [](exitCode = 0 =>
            /\ orphaned = fq.claim
            /\ orphaned \cap fq.committed = {}
            /\ \A e \in orphaned : \A i \in 1..Len(fq.active) : fq.active[i] # e)

\* a signal reached the loader while it held an envelope
C23_Witness == exitCode = 0 /\ orphaned # {} /\ fq.committed # {}

\* C24: the loaders that validate against the schema catalog (loader.ts and
\* part_013) claim, process, commit or roll back an envelope only in a
\* process whose getAllSchemas call at start-up has completed.
C24_NoPopBeforeSchemas ==
    /\ [][(Running /\ kind # "legacy"
            /\ ((fq' # fq /\ nextId' = nextId) \/ stores' # stores))
           => schemasState = "done"]_vars
    /\ []((Running /\ kind # "legacy" /\ ~BetweenIterations)
           => schemasState = "done")

\* the loader waits for getAllSchemas while envelopes are in the spool
C24_Witness ==
    /\ kind # "legacy" /\ Running
    /\ lpc = "getAllSchemas" /\ schemasState = "running"
    /\ fq.active # <<>>

\* ------------------------------------------------------- spool properties
\* C25: tpop hands the envelopes of a subscription to the loader in the
\* order in which the listener received them.
C25_FifoThroughSpool ==
    \A i \in 1..Len(handedOut) :
        /\ \A j \in 1..(i - 1) : handedOut[j] < handedOut[i]
        /\ \A f \in dirNew : handedOut[i] < f

\* ---------------------------------------------------- dispatch properties
Matching == {i \in DOMAIN allKnownHandlers :
                test(allKnownHandlers[i].re, msgIn.broker_topic)}

\* C26: the handler that runs is the one registered with the first regex,
\* in registration order, that matches broker_topic; when no regex matches,
\* NoAssociatedHandlerError is thrown and no handler runs.
C26_FirstMatchOrNoHandlerError ==
    msgOut.error # "pending" =>
        IF Matching = {}
        THEN msgOut = [handler |-> "none",
                       error |-> "NoAssociatedHandlerError"]
        ELSE msgOut = [handler |-> allKnownHandlers[Min(Matching)].handler,
                       error |-> "none"]

\* two pairs with different handlers match the topic, and the first one ran
C26_Witness ==
    /\ msgOut.error = "none"
    /\ Cardinality(Matching) = 2
    /\ allKnownHandlers[1].handler # allKnownHandlers[2].handler
    /\ msgOut.handler = allKnownHandlers[1].handler

\* -------------------------------------------------- validation properties
VersionMissing == msgIn.version.t \in {"undefined", "null"}

\* the empty string, and the empty array or object
VersionEmpty ==
    msgIn.version.t \in {"string", "array", "object"} /\ msgIn.version.size = 0

VersionStartsWithZeroDot ==
    /\ Len(msgIn.version.str) >= 2
    /\ msgIn.version.str[1] = "0"
    /\ msgIn.version.str[2] = "."

NotValidated == msgOut.applied = {} /\ msgOut.error = "WrongVersionError"

ValidatedBy(validator) ==
    msgOut.applied = {validator} /\ msgOut.error # "WrongVersionError"

\* C27 as stated: on a topic containing ".ci.", a missing or empty version
\* fails with WrongVersionError before any schema is applied, a version
\* starting with "0." goes to the relaxed schema set only, and any other
\* version to the strict set only.
C27_VersionSelectsSchemaSet ==
    (includesCi(msgIn.broker_topic) /\ msgOut.error # "pending") =>
        CASE VersionMissing \/ VersionEmpty -> NotValidated
          [] VersionStartsWithZeroDot -> ValidatedBy("relaxed")
          [] OTHER -> ValidatedBy("strict")

\* C27: on a topic containing ".ci.", a version that is missing, null, of
\* length 0, or a number or boolean fails with WrongVersionError before any
\* schema is applied; any other version whose string form starts with "0."
\* goes to the relaxed schema set only, and the rest to the strict set only.
C27_NonEmptyVersionSelectsSchemaSet ==
    (includesCi(msgIn.broker_topic) /\ msgOut.error # "pending") =>
        CASE VersionMissing \/ VersionEmpty
             \/ msgIn.version.t \in {"number", "boolean"} -> NotValidated
          [] VersionStartsWithZeroDot -> ValidatedBy("relaxed")
          [] OTHER -> ValidatedBy("strict")

\* a CI message with a numeric version was refused
C27_Witness ==
    /\ includesCi(msgIn.broker_topic)
    /\ msgIn.version.t = "number"
    /\ msgOut.error = "WrongVersionError"

\* --------------------------------------------------- thread id properties
BothPathsDone == msgOut.db # Pending /\ msgOut.index # Pending

\* C28: the document-DB path and the search-index path compute the same
\* thread id for the same envelope: pipeline.id if it is a non-empty string,
\* else thread_id, else the dummy id hashed from run.url, with the test case
\* name appended to the anchor when the topic's stage is test.
C28_SameThreadIdOnBothPaths ==
    BothPathsDone => msgOut.db = msgOut.index

\* ----------------------------------------------------- listener, parsing
\* C29: a complete broker message whose body does not parse as JSON is
\* positively acknowledged by the listener, no append to the spool is
\* started for it, and it never appears in the spool.
C29_UnparsableAckedAndDropped ==
    \A m \in BrokerMsgs :
        msgForm[m] = "notjson" =>
            /\ accepted[m]
            /\ pushState[m] = "none"
            /\ m \notin Range(spool)

\* an unparsable message was acknowledged and dropped between two messages
\* that reached the spool
C29_Witness ==
    /\ msgForm[1] = "json" /\ msgForm[2] = "notjson" /\ msgForm[3] = "json"
    /\ accepted[2]
    /\ spool = <<1, 3>>

\* ------------------------------------------------ artifact identity
\* C30: every artifact document keeps the type and the aid it was created
\* with by find-or-create, whatever envelopes Artifacts.add handles later.
C30_TypeAndAidImmutable ==
    \A i \in DOMAIN msgOut.collection :
        /\ msgOut.collection[i].type = msgOut.created[i][1]
        /\ msgOut.collection[i].aid = msgOut.created[i][2]

\* a document was updated by Artifacts.add after its creation, next to a
\* document of the same aid and another type
C30_Witness ==
    /\ Len(msgOut.collection) = 2
    /\ msgOut.collection[1].version > 1
    /\ msgOut.collection[1].nvr # "none"
    /\ msgOut.collection[2].aid = msgOut.collection[1].aid
    /\ msgOut.collection[2].type # msgOut.collection[1].type

\* ------------------------------------------------ NEW directory, listing
\* C31: a scan of the NEW directory by the replaced listNew reads at most 32
\* file names, however many files wait there.
C31_ListingBounded == listed <= 32

\* a scan of a directory of 33 files read 32 names
C31_Witness ==
    /\ Cardinality(dirNew) + 1 > 32
    /\ Len(handedOut) = 1
    /\ listed = 32

\* ------------------------------------------------------ koji_query, retries
\* C32 as stated: koji_query makes 5 attempts at most.
C32_FiveAttemptsAtMost == msgOut.attempts <= 5

\* C32: koji_query makes the first attempt and at most 5 retries, 6 calls in
\* all; the timeout before retry n is between 3^(n-1) s and twice that,
\* capped at 60 s; it rejects only when the call after the fifth retry
\* failed, and makes no call after it resolved or rejected.
C32_FiveRetriesThenReject ==
    /\ msgOut.attempts <= 6
    /\ Len(msgOut.timeouts) <= 5
    /\ \A n \in DOMAIN msgOut.timeouts :
          /\ msgOut.timeouts[n] >= 1 /\ msgOut.timeouts[n] <= 60
          /\ \/ msgOut.timeouts[n] = 60
             \/ /\ msgOut.timeouts[n] >= 3 ^ (n - 1)
                /\ msgOut.timeouts[n] <= 2 * 3 ^ (n - 1)
    /\ msgIn.state = "rejected" =>
          msgOut.attempts = 6 /\ Len(msgOut.timeouts) = 5
    /\ msgIn.state = "timeout" => msgOut.attempts = Len(msgOut.timeouts)
    /\ msgIn.state \in {"resolved", "rejected"} =>
          msgOut.attempts = Len(msgOut.timeouts) + 1

\* the sixth call failed and koji_query rejected
C32_Witness ==
    /\ msgIn.state = "rejected"
    /\ msgOut.attempts = 6
    /\ msgOut.timeouts[5] = 60

\* ------------------------------------------------------ bulk request body
\* C33: a flush issues one bulk action whose body has, for each pending
\* update in order, a line {update: {_index, _id, routing}} followed by a
\* line {doc, upsert?, doc_as_upsert, retry_on_conflict: 10}.
C33_BulkBodyLines ==
    msgOut.errors # "pending" =>
        /\ Len(msgOut.requests) = 1
        /\ LET body == msgOut.requests[1] IN
            /\ Len(body) = 2 * Len(msgIn.updates)
            /\ \A i \in DOMAIN msgIn.updates :
                LET update == msgIn.updates[i] IN
                /\ body[2 * i - 1].keys = {"update"}
                /\ body[2 * i - 1]._index = update.indexName
                /\ body[2 * i - 1]._id = update.docId
                /\ body[2 * i - 1].routing = update.routing
                /\ {"doc", "doc_as_upsert", "retry_on_conflict"}
                      \subseteq body[2 * i].keys
                /\ body[2 * i].keys \subseteq
                      {"doc", "upsert", "doc_as_upsert", "retry_on_conflict"}
                /\ body[2 * i].doc = update.doc
                /\ body[2 * i].doc_as_upsert = update.docAsUpsert
                /\ body[2 * i].retry_on_conflict = 10

\* ------------------------------------------------- bulk loader, progress
\* C34: in the bulk loader every envelope that was popped into the pending
\* batch is eventually committed or rolled back (or the process ends), also
\* when no further envelope arrives in the spool.
C34_PoppedEventuallyResolved ==
    \A e \in 1..MaxEnv :
        (kind = "bulk" /\ e \in Range(fqEntries))
            ~> (~Running \/ e \notin fq.claim)

\* --------------------------------------------------- bulk loader, commit
\* the updates getMsgUpdates derives from envelope e
DerivedUpdates(e) ==
    UNION {Range(r.updates) : r \in getMsgUpdates(e, envClass[e])}

PassedShapeCheck(e) == envClass[e] \notin {"none", "badshape"}

\* C35: in the bulk loader an envelope that passed the shape check is
\* committed only by the step in which a bulk request holding every update
\* derived from it returned without errors; a committed envelope has no
\* update pending and every update derived from it is in the index.
C35_CommitOnlyAfterBulk ==
    /\ [][\A e \in 1..MaxEnv :
            (kind = "bulk" /\ PassedShapeCheck(e)
                /\ e \in fq'.committed /\ e \notin fq.committed)
            => /\ lpc = "bulk"
               /\ e \in Range(fqEntries)
               /\ DerivedUpdates(e) \subseteq Range(bulkUpdates)
               /\ Range(bulkUpdates) \subseteq stores'.index
               /\ exitCode' = -1]_vars
    /\ [](\A e \in 1..MaxEnv :
            (kind = "bulk" /\ PassedShapeCheck(e) /\ e \in fq.committed)
            => /\ DerivedUpdates(e) \subseteq stores.index
               /\ \A i \in DOMAIN bulkUpdates : bulkUpdates[i].env # e
               /\ e \notin Range(fqEntries))

\* a batch of two envelopes with updates was committed after its bulk request
C35_Witness ==
    /\ kind = "bulk"
    /\ fq.committed = {1, 2}
    /\ \A e \in {1, 2} : envClass[e] = "ok"
    /\ Cardinality(stores.index) = 4

\* ---------------------------------------------------- listener, settling
\* C36: every delivery handed to process_msg is accepted, on every path
\* through the handler.
C36_EveryDeliveryAccepted ==
    \A m \in BrokerMsgs : m <= msgSeen => accepted[m]

\* ------------------------------------------------ rollback before exit
\* C37: when a loader called rollback on its claimed envelopes and exited
\* with code 1, every such envelope is back in the active directory.
C37_RollbackCompleteAtExit ==
    msgIn.exitCode = 1 =>
        \A e \in msgOut.rollbackCalled :
            e \in msgOut.active /\ e \notin msgOut.claim

\* the updates of a handler result that carry a child (message) document
ChildUpdates(updates) ==
    {i \in 1..Len(updates) : updates[i].doc["artToMsgs.name"] = nameMessage}

\* the result holds an update that inserts the parent when it is missing
UpsertsParent(updates, art) ==
    \E j \in 1..Len(updates) :
        /\ updates[j].docId = <<"artifact", art>>
        /\ updates[j].hasUpsert
        /\ ~updates[j].docAsUpsert

\* the child documents of an index
Children(r) ==
    {d \in DocIds : /\ indexDocs[r][d].exists
                    /\ indexDocs[r][d].source["artToMsgs.name"] = nameMessage}

\* C38: a handler result with a child document of parent P also holds an
\* upsert-if-missing update of P, and after every bulk request each child
\* document of an index has an existing parent document.
C38_ChildHasParent ==
    \A r \in Replicas :
        /\ \A e \in bulked[r] :
              LET updates == indexHandler(e)
              IN  \A i \in ChildUpdates(updates) :
                      UpsertsParent(updates, updates[i].doc["artToMsgs.parent"])
        /\ \A d \in Children(r) :
              ParentOf(r, indexDocs[r][d].source["artToMsgs.parent"]).exists
\* C39: when the present document and the new data both hold a scalar at a
\* path, the path is not in the update set, even if the two scalars differ.
C39_ScalarsNeverUpdated ==
    dpc # "mk_update_set" =>
        \A path \in Nodes :
            (current[path].t = "scalar" /\ computed[path].t = "scalar") =>
                path \notin DOMAIN updateSetOut
====
